---- MODULE Spec2Model ----
(***************************************************************************)
(* Model of the document segmentation and hybrid retrieval engine of       *)
(* src/rag_demo.py (class MedicalRAGSystem, BM25KeywordIndexer,            *)
(* RetrievalHit).                                                          *)
(*                                                                         *)
(* Texts are sequences of one-character strings, so that the regular       *)
(* expressions, str.strip(), str.replace() and slicing of the source are   *)
(* computed character by character.                                        *)
(***************************************************************************)
EXTENDS Integers, Sequences, FiniteSets, TLC

VARIABLES
    paragraph_chunk_chars, \* self.paragraph_chunk_chars
    max_embed_chars,       \* self.max_embed_chars
    documents,      \* the list handed to _build_parent_nodes
    parent_nodes,   \* the list _build_parent_nodes returned
    enhanced_nodes, \* the child segments of all parents, in emission order
    pc,             \* position in the build pipeline
    arg_paragraph,  \* the argument of _chunk_paragraph
    ret_chunks,     \* the list _chunk_paragraph returned
    chunked,        \* whether _chunk_paragraph has returned
    doc_metadata,   \* self.doc_metadata: doc_id -> DocMetadata record
    disk_doc_metadata, \* the file doc_metadata.json under persist_dir
    llm_log,        \* completion calls of the latest _extract_doc_metadata call
    meta_call,      \* the latest _extract_doc_metadata call: arguments and outcome
    vector_index,   \* self.vector_index (self.index is always the same object)
    keyword_index,  \* self.keyword_index
    parent_text_map, \* self.parent_text_map
    storage,        \* persist_dir: the persisted dense index, keyword_index.json, parent_text_map.json
    index_call,     \* the latest create_index call: arguments, outcome, embedding runs
    ret,            \* the dual_retrieve_hits call in progress: inputs, locals, result
    prev_ret,       \* the dual_retrieve_hits call this one repeats, if any
    kw_call         \* the direct BM25KeywordIndexer.retrieve call in progress

configVars == <<paragraph_chunk_chars, max_embed_chars>>

metaVars == <<doc_metadata, disk_doc_metadata, llm_log, meta_call>>

pipeVars == <<documents, parent_nodes, enhanced_nodes, pc>>

chunkVars == <<arg_paragraph, ret_chunks, chunked>>

indexVars == <<vector_index, keyword_index, parent_text_map, storage, index_call>>

retrVars == <<ret, prev_ret, kw_call>>

vars == <<configVars, pipeVars, chunkVars, metaVars, indexVars, retrVars>>

-----------------------------------------------------------------------------
(* Generic helpers *)

Min(S) == CHOOSE x \in S : \A y \in S : x <= y

Max(S) == CHOOSE x \in S : \A y \in S : x >= y

RECURSIVE Concat(_)
\* "".join(list of texts)
Concat(ss) == IF ss = <<>> THEN <<>> ELSE Head(ss) \o Concat(Tail(ss))

\* All sequences over S of length 0..n
SeqsUpTo(S, n) == UNION {[1..k -> S] : k \in 0..n}

\* a text of n copies of the character c
Rep(c, n) == [i \in 1..n |-> c]

-----------------------------------------------------------------------------
(* Python string primitives *)

\* the slice of s from index a to index b, both included and clamped to the
\* text as Python clamps text[a-1:b]
Slice(s, a, b) ==
    LET lo == IF a < 1 THEN 1 ELSE a
        hi == IF b > Len(s) THEN Len(s) ELSE b
    IN  IF lo > hi THEN <<>> ELSE [i \in 1..(hi - lo + 1) |-> s[i + lo - 1]]

\* the characters str.strip() removes and the regex class \s matches
WS == {" ", "\n", "\r", "\t"}

RECURSIVE LSkip(_, _)
\* index of the first non-whitespace character at or after i (Len(s)+1 if none)
LSkip(s, i) == IF i <= Len(s) /\ s[i] \in WS THEN LSkip(s, i + 1) ELSE i

RECURSIVE RSkip(_, _)
\* index of the last non-whitespace character at or before j (0 if none)
RSkip(s, j) == IF j >= 1 /\ s[j] \in WS THEN RSkip(s, j - 1) ELSE j

\* str.strip()
Strip(s) ==
    LET a == LSkip(s, 1)
        b == RSkip(s, Len(s))
    IN  IF a > b THEN <<>> ELSE Slice(s, a, b)

RECURSIVE DropCRLF(_)
\* str.replace("\r\n", "\n"): one left-to-right pass, no rescan of the output
DropCRLF(s) ==
    LET P == {i \in 1..(Len(s) - 1) : s[i] = "\r" /\ s[i + 1] = "\n"}
    IN  IF P = {} THEN s
        ELSE LET i == Min(P)
             IN  Slice(s, 1, i - 1) \o <<"\n">> \o DropCRLF(Slice(s, i + 2, Len(s)))

\* text.replace("\r\n", "\n").replace("\r", "\n")
NormalizeNewlines(s) ==
    LET t == DropCRLF(s)
    IN  [i \in 1..Len(t) |-> IF t[i] = "\r" THEN "\n" ELSE t[i]]

\* the regex class \d
Digits == {"0", "1", "2", "3", "4", "5", "6", "7", "8", "9"}

\* the regex class [a-zA-Z], over the letters the model's texts use
AlphaChars == {"a", "b", "c", "d", "e", "l", "t", "x", "y", "A", "B", "E", "L", "T"}

\* the regex class \w
WordChars == AlphaChars \cup Digits \cup {"_"}

\* str.lower(), on the upper-case letters the model's texts use
LowerChar(c) == CASE c = "T" -> "t" [] c = "A" -> "a" [] c = "B" -> "b"
                  [] c = "L" -> "l" [] c = "E" -> "e" [] OTHER -> c

Lower(s) == [i \in 1..Len(s) |-> LowerChar(s[i])]

\* str(n) for the ordinals of node ids
Digit(d) == CASE d = 0 -> "0" [] d = 1 -> "1" [] d = 2 -> "2" [] d = 3 -> "3"
              [] d = 4 -> "4" [] d = 5 -> "5" [] d = 6 -> "6" [] d = 7 -> "7"
              [] d = 8 -> "8" [] d = 9 -> "9"

RECURSIVE IntToStr(_)
IntToStr(n) == IF n < 10 THEN <<Digit(n)>> ELSE IntToStr(n \div 10) \o <<Digit(n % 10)>>

-----------------------------------------------------------------------------
(* _build_parent_nodes *)

RECURSIVE HashRun(_, _)
\* number of consecutive '#' characters from index i on
HashRun(s, i) == IF i <= Len(s) /\ s[i] = "#" THEN 1 + HashRun(s, i + 1) ELSE 0

\* end of the line holding index i: the last index before the next "\n"
LineEnd(s, i) ==
    LET N == {j \in i..Len(s) : s[j] = "\n"}
    IN  IF N = {} THEN Len(s) ELSE Min(N) - 1

\* a heading pattern that matches level-1 headings only
HeadingAtLevelOne(s, i) ==
    /\ i >= 1 /\ i <= Len(s)
    /\ (i = 1 \/ s[i - 1] = "\n")
    /\ s[i] = "#"
    /\ LET h == HashRun(s, i)
       IN  h = 1 /\ i + h <= Len(s) /\ s[i + h] \in WS

\* heading_re = ^(#{1,6})\s+(.*)$ with re.MULTILINE matches at index i
HeadingAt(s, i) ==
    /\ i >= 1 /\ i <= Len(s)
    /\ (i = 1 \/ s[i - 1] = "\n")
    /\ s[i] = "#"
    /\ LET h == HashRun(s, i)
       IN  h <= 6 /\ i + h <= Len(s) /\ s[i + h] \in WS

\* the match at index i: start, last index, and group(2)
HeadingMatch(s, i) ==
    LET h == HashRun(s, i)
        w == LSkip(s, i + h)
        e == LineEnd(s, w)
    IN  [start |-> i, last |-> e, group2 |-> Slice(s, w, e)]

RECURSIVE FindHeadings(_, _)
\* list(heading_re.finditer(text)): non-overlapping matches, left to right
FindHeadings(s, pos) ==
    LET C == {i \in pos..Len(s) : HeadingAt(s, i)}
    IN  IF C = {} THEN <<>>
        ELSE LET m == HeadingMatch(s, Min(C))
             IN  <<m>> \o FindHeadings(s, m.last + 1)

\* metadata[key] = value on a node: the key is added when the node lacks it
With(node, key, value) ==
    [f \in DOMAIN node \cup {key} |-> IF f = key THEN value ELSE node[f]]

\* doc_id = f"{folder_name}__{doc_stem}"
DocId(doc) == doc.folder \o <<"_", "_">> \o doc.stem

\* TextNode(text=..., metadata={**metadata, section_header, doc_id, doc_title}, id_=...)
ParentNode(id, text, header, doc, ix) ==
    [node_id |-> id, text |-> text, section_header |-> header,
     doc_id |-> DocId(doc), doc_title |-> header,
     src_doc |-> ix]

\* HeadingBlocks with the end of a block taken one character too far
HeadingBlocksOverlap(text, matches, doc, ix) ==
    [k \in 1..Len(matches) |->
        LET start == matches[k].start
            end   == IF k + 1 <= Len(matches) THEN matches[k + 1].start ELSE Len(text)
        IN  ParentNode(DocId(doc) \o <<"_", "h">> \o IntToStr(k),
                       Strip(Slice(text, start, end)),
                       Strip(matches[k].group2), doc, ix)]

\* the heading blocks of one document (for idx, m in enumerate(matches))
HeadingBlocks(text, matches, doc, ix) ==
    [k \in 1..Len(matches) |->
        LET start == matches[k].start
            end   == IF k + 1 <= Len(matches) THEN matches[k + 1].start - 1 ELSE Len(text)
        IN  ParentNode(DocId(doc) \o <<"_", "h">> \o IntToStr(k),
                       Strip(Slice(text, start, end)),
                       Strip(matches[k].group2), doc, ix)]

\* the loop body that emits nothing for a document without a heading whose
\* trimmed text is empty
ParentsOfDocSkipBlank(doc, ix) ==
    LET text    == NormalizeNewlines(doc.text)
        matches == FindHeadings(text, 1)
    IN  IF matches = <<>>
        THEN IF Strip(text) = <<>> THEN <<>>
             ELSE <<ParentNode(DocId(doc) \o <<"_", "h", "0">>, Strip(text), <<>>, doc, ix)>>
        ELSE HeadingBlocks(text, matches, doc, ix)

\* the body of the loop over documents
ParentsOfDoc(doc, ix) ==
    LET text    == NormalizeNewlines(doc.text)
        matches == FindHeadings(text, 1)
    IN  IF matches = <<>>
        THEN <<ParentNode(DocId(doc) \o <<"_", "h", "0">>, Strip(text), <<>>, doc, ix)>>
        ELSE LET first_start == matches[1].start
                 preface     == Strip(Slice(text, 1, first_start - 1))
                 pre == IF first_start > 1 /\ preface # <<>>
                        THEN <<ParentNode(DocId(doc) \o <<"_", "p", "r", "e", "f", "a", "c", "e">>,
                                          preface, <<>>, doc, ix)>>
                        ELSE <<>>
             IN  pre \o HeadingBlocks(text, matches, doc, ix)

RECURSIVE BuildFrom(_, _)
BuildFrom(docs, ix) ==
    IF ix > Len(docs) THEN <<>>
    ELSE ParentsOfDoc(docs[ix], ix) \o BuildFrom(docs, ix + 1)

\* _build_parent_nodes(documents)
BuildParentNodes(docs) == BuildFrom(docs, 1)

-----------------------------------------------------------------------------
(* _chunk_paragraph *)

\* floor of the chunk limit: limit = max(self.paragraph_chunk_chars, 200)
MinChunkChars == 200

\* the sentence terminators of sentence_pattern that occur in the model's
\* alphabet (the pattern also lists the full-width forms)
Terminators == {".", "!", "?"}

RECURSIVE SentenceSplit(_, _)
\* sentence_pattern.split(paragraph) with sentence_pattern = (?<=[.!?...])\s+ :
\* a separator is a whitespace run that directly follows a terminator
SentenceSplit(p, pos) ==
    LET S == {i \in pos..Len(p) : i > 1 /\ p[i] \in WS /\ p[i - 1] \in Terminators}
    IN  IF S = {} THEN <<Slice(p, pos, Len(p))>>
        ELSE LET i == Min(S)
             IN  <<Slice(p, pos, i - 1)>> \o SentenceSplit(p, LSkip(p, i))

\* [s.strip() for s in pieces if s.strip()]
StripNonEmpty(pieces) ==
    LET stripped == [k \in 1..Len(pieces) |-> Strip(pieces[k])]
    IN  SelectSeq(stripped, LAMBDA x : x # <<>>)

\* sentences of a paragraph, as lines 306-312 compute them
Sentences(paragraph) ==
    StripNonEmpty(SentenceSplit(Strip(NormalizeNewlines(paragraph)), 1))

RECURSIVE ChunkLoop(_, _, _, _, _)
\* the for loop over sentences and the final flush (lines 318-342)
ChunkLoop(sentences, k, chunks, buffer, limit) ==
    IF k > Len(sentences)
    THEN IF buffer # <<>> THEN Append(chunks, Strip(buffer)) ELSE chunks
    ELSE LET sentence == sentences[k]
         IN  IF Len(sentence) > limit
             THEN ChunkLoop(sentences, k + 1,
                            (IF buffer # <<>> THEN Append(chunks, Strip(buffer)) ELSE chunks)
                                \o <<sentence>>,
                            <<>>, limit)
             ELSE LET prospective == IF buffer # <<>>
                                     THEN Strip(buffer \o <<" ">> \o sentence)
                                     ELSE sentence
                  IN  IF Len(prospective) <= limit
                      THEN ChunkLoop(sentences, k + 1, chunks, prospective, limit)
                      ELSE ChunkLoop(sentences, k + 1,
                                     IF buffer # <<>> THEN Append(chunks, Strip(buffer)) ELSE chunks,
                                     sentence, limit)

\* _chunk_paragraph that returns every sentence as a sub-chunk of its own
ChunkParagraphPerSentence(paragraph, chunk_chars) == Sentences(paragraph)

\* _chunk_paragraph that fills its buffer up to twice the limit
ChunkParagraphDoubleLimit(paragraph, chunk_chars) ==
    LET limit == IF chunk_chars > MinChunkChars THEN chunk_chars ELSE MinChunkChars
    IN  ChunkLoop(Sentences(paragraph), 1, <<>>, <<>>, limit + limit)

\* _chunk_paragraph that enforces the limit by cutting every chunk at it
ChunkParagraphHardCut(paragraph, chunk_chars) ==
    LET limit == IF chunk_chars > MinChunkChars THEN chunk_chars ELSE MinChunkChars
        sentences == Sentences(paragraph)
        cs    == ChunkLoop(sentences, 1, <<>>, <<>>, limit)
    IN  [c \in 1..Len(cs) |-> Slice(cs[c], 1, limit)]

\* _chunk_paragraph(paragraph) with self.paragraph_chunk_chars = chunk_chars
ChunkParagraph(paragraph, chunk_chars) ==
    LET limit     == IF chunk_chars > MinChunkChars THEN chunk_chars ELSE MinChunkChars
        sentences == Sentences(paragraph)
    IN  IF Strip(NormalizeNewlines(paragraph)) = <<>> THEN <<>>
        ELSE IF Len(sentences) = 1 /\ Len(sentences[1]) <= limit THEN <<sentences[1]>>
        ELSE ChunkLoop(sentences, 1, <<>>, <<>>, limit)

-----------------------------------------------------------------------------
(* _truncate_for_embedding *)

\* floor of the embedding cap: limit = max(self.max_embed_chars, 500)
MinEmbedChars == 500

\* the length cap that never cuts
TruncateNothing(text, embed_chars) == text

\* _truncate_for_embedding(text) with self.max_embed_chars = embed_chars
TruncateForEmbedding(text, embed_chars) ==
    LET limit == IF embed_chars > MinEmbedChars THEN embed_chars ELSE MinEmbedChars
    IN  IF Len(text) <= limit THEN text ELSE Slice(text, 1, limit)

-----------------------------------------------------------------------------
(* _split_node_into_segments *)

TableOpen == <<"<", "t", "a", "b", "l", "e">>

TableClose == <<"<", "/", "t", "a", "b", "l", "e", ">">>

\* "<table\b" matches at index i
TableOpenAt(s, i) ==
    /\ i + 5 <= Len(s)
    /\ s[i] = "<"
    /\ Lower(Slice(s, i, i + 5)) = TableOpen
    /\ (i + 6 > Len(s) \/ s[i + 6] \notin WordChars)

\* "</table>" matches at index j
TableCloseAt(s, j) ==
    /\ j + 7 <= Len(s)
    /\ s[j] = "<"
    /\ Lower(Slice(s, j, j + 7)) = TableClose

\* table_pattern.fullmatch(s)
TableFullMatch(s) ==
    /\ Len(s) >= 14
    /\ TableOpenAt(s, 1)
    /\ TableCloseAt(s, Len(s) - 7)

RECURSIVE TableSplit(_, _)
\* table_pattern.split(text): text pieces and captured tables alternate
TableSplit(s, pos) ==
    LET closes == {j \in pos..Len(s) : TableCloseAt(s, j)}
        opens  == {i \in pos..Len(s) : TableOpenAt(s, i)
                                       /\ \E j \in closes : j >= i + 6}
    IN  IF opens = {} THEN <<Slice(s, pos, Len(s))>>
        ELSE LET i == Min(opens)
                 j == Min({c \in closes : c >= i + 6})
             IN  <<Slice(s, pos, i - 1), Slice(s, i, j + 7)>> \o TableSplit(s, j + 8)

\* last "\n" of the whitespace run that starts at index i
LastNewlineOfRun(s, i) ==
    LET e == LSkip(s, i) - 1
    IN  Max({j \in i..e : s[j] = "\n"})

RECURSIVE ParagraphSplit(_, _)
\* re.split(r"\n\s*\n", text)
ParagraphSplit(s, pos) ==
    LET S == {i \in pos..Len(s) : s[i] = "\n" /\ LastNewlineOfRun(s, i) > i}
    IN  IF S = {} THEN <<Slice(s, pos, Len(s))>>
        ELSE LET i == Min(S)
             IN  <<Slice(s, pos, i - 1)>> \o ParagraphSplit(s, LastNewlineOfRun(s, i) + 1)

\* dict.get(key) of the node's metadata, "" when the key is absent
MetaGet(node, key) == IF key \in DOMAIN node THEN node[key] ELSE <<>>

\* header = get("header") or get("section") or get("title") or get("heading") or ""
HeaderOf(node) ==
    IF MetaGet(node, "header") # <<>> THEN MetaGet(node, "header")
    ELSE IF MetaGet(node, "section") # <<>> THEN MetaGet(node, "section")
    ELSE IF MetaGet(node, "title") # <<>> THEN MetaGet(node, "title")
    ELSE IF MetaGet(node, "heading") # <<>> THEN MetaGet(node, "heading")
    ELSE <<>>

\* the keys of a parent's metadata that _apply_doc_meta_to_parents may have added
DocMetaKeys == {"doc_doi", "doc_authors"}

\* metadata = dict(base_metadata); metadata.update({...}); TextNode(text, metadata, id_)
ChildNode(node, id, text, pidx, chunk, scount, istable) ==
    LET own == [node_id |-> id, text |-> text,
                section_header |-> HeaderOf(node),
                section_paragraph_index |-> pidx,
                section_paragraph_chunk |-> chunk,
                section_segment_index |-> scount,
                segment_type |-> IF istable THEN "table" ELSE "text",
                is_table |-> istable,
                parent_node_id |-> node.node_id,
                doc_id |-> node.doc_id, doc_title |-> node.doc_title]
    IN  [f \in DOMAIN own \cup (DOMAIN node \cap DocMetaKeys) |->
            IF f \in DOMAIN own THEN own[f] ELSE node[f]]

\* ChunkNodes that leaves out the last chunk of a paragraph cut into several
ChunkNodesDropLast(node, chunks, pidx, scount, embed_chars) ==
    [c \in 1..(IF Len(chunks) > 1 THEN Len(chunks) - 1 ELSE Len(chunks)) |->
        ChildNode(node,
                  node.node_id \o <<"_", "p">> \o IntToStr(pidx) \o <<"_">> \o IntToStr(c),
                  TruncateForEmbedding(chunks[c], embed_chars),
                  pidx, c, scount + c, FALSE)]

\* ChunkNodes that gives every chunk the ordinal 1
ChunkNodesOrdinalOne(node, chunks, pidx, scount, embed_chars) ==
    [c \in 1..Len(chunks) |->
        ChildNode(node,
                  node.node_id \o <<"_", "p">> \o IntToStr(pidx) \o <<"_">> \o IntToStr(c),
                  TruncateForEmbedding(chunks[c], embed_chars),
                  pidx, 1, scount + c, FALSE)]

\* ChunkNodes with segment_counter incremented once per paragraph only
ChunkNodesSameIndex(node, chunks, pidx, scount, embed_chars) ==
    [c \in 1..Len(chunks) |->
        ChildNode(node,
                  node.node_id \o <<"_", "p">> \o IntToStr(pidx) \o <<"_">> \o IntToStr(c),
                  TruncateForEmbedding(chunks[c], embed_chars),
                  pidx, c, scount + 1, FALSE)]

\* the segments of one paragraph's chunks (for chunk_order, chunk_text in enumerate(chunks, 1))
ChunkNodes(node, chunks, pidx, scount, embed_chars) ==
    [c \in 1..Len(chunks) |->
        ChildNode(node,
                  node.node_id \o <<"_", "p">> \o IntToStr(pidx) \o <<"_">> \o IntToStr(c),
                  TruncateForEmbedding(chunks[c], embed_chars),
                  pidx, c, scount + c, FALSE)]

RECURSIVE ParagraphLoop(_, _, _, _, _, _, _)
\* for paragraph in paragraphs (lines 575-602); returns the nodes and the counters
ParagraphLoop(node, paragraphs, k, pidx, scount, chunk_chars, embed_chars) ==
    IF k > Len(paragraphs) THEN [nodes |-> <<>>, pidx |-> pidx, scount |-> scount]
    ELSE LET chunks == ChunkParagraph(paragraphs[k], chunk_chars)
             here   == ChunkNodes(node, chunks, pidx + 1, scount, embed_chars)
             rest   == ParagraphLoop(node, paragraphs, k + 1, pidx + 1,
                                     scount + Len(chunks), chunk_chars, embed_chars)
         IN  [nodes |-> here \o rest.nodes, pidx |-> rest.pidx, scount |-> rest.scount]

RECURSIVE SegmentLoop(_, _, _, _, _, _, _)
\* for raw_segment in raw_segments (lines 534-602)
SegmentLoop(node, raws, k, pidx, scount, chunk_chars, embed_chars) ==
    IF k > Len(raws) THEN <<>>
    ELSE LET raw == raws[k]
         IN  IF Strip(raw) = <<>>
             THEN SegmentLoop(node, raws, k + 1, pidx, scount, chunk_chars, embed_chars)
             ELSE IF TableFullMatch(Strip(raw))
             THEN <<ChildNode(node,
                              node.node_id \o <<"_", "t", "b", "l">> \o IntToStr(pidx + 1),
                              TruncateForEmbedding(Strip(raw), embed_chars),
                              pidx + 1, 1, scount + 1, TRUE)>>
                  \o SegmentLoop(node, raws, k + 1, pidx + 1, scount + 1,
                                 chunk_chars, embed_chars)
             ELSE LET paragraphs == StripNonEmpty(ParagraphSplit(NormalizeNewlines(raw), 1))
                      r == ParagraphLoop(node, paragraphs, 1, pidx, scount,
                                         chunk_chars, embed_chars)
                  IN  r.nodes \o SegmentLoop(node, raws, k + 1, r.pidx, r.scount,
                                             chunk_chars, embed_chars)

\* _split_node_into_segments(node)
SplitNodeIntoSegments(node, chunk_chars, embed_chars) ==
    SegmentLoop(node, TableSplit(node.text, 1), 1, 0, 0, chunk_chars, embed_chars)

RECURSIVE SplitAll(_, _, _, _)
\* for node in parent_nodes: enhanced_nodes.extend(self._split_node_into_segments(node))
SplitAll(nodes, k, chunk_chars, embed_chars) ==
    IF k > Len(nodes) THEN <<>>
    ELSE SplitNodeIntoSegments(nodes[k], chunk_chars, embed_chars)
         \o SplitAll(nodes, k + 1, chunk_chars, embed_chars)

-----------------------------------------------------------------------------
(* Document metadata: _persist_doc_metadata, _load_doc_metadata,
   _apply_doc_meta_to_parents, _llm_extract_fields, _extract_doc_metadata *)

None == [k |-> "none"]

Str(v) == [k |-> "str", v |-> v]

\* the value is a non-empty string (Python truthiness of a str | None)
Truthy(x) == x.k = "str" /\ x.v # <<>>

\* _persist_doc_metadata that never writes
PersistNothing(disk, meta) == disk

\* _persist_doc_metadata: nothing is written when self.doc_metadata is empty
PersistDocMetadata(disk, meta) ==
    IF meta = <<>> THEN disk ELSE [exists |-> TRUE, data |-> meta]

\* _load_doc_metadata: {} when the file is missing
LoadDocMetadata(disk) == IF disk.exists THEN disk.data ELSE <<>>

\* the update of one parent's metadata with the DOI and the authors left out
ApplyTitleOnly(node, meta) ==
    IF node.doc_id \notin DOMAIN meta THEN node
    ELSE [node EXCEPT !.doc_title = meta[node.doc_id].title]

\* the update of one parent's metadata (lines 356-373)
ApplyDocMetaToNode(node, meta) ==
    IF node.doc_id \notin DOMAIN meta THEN node
    ELSE LET doc_info == meta[node.doc_id]
         IN  With(With(With(node, "doc_title", doc_info.title),
                       "doc_doi", doc_info.doi),
                  "doc_authors", doc_info.authors)

\* _apply_doc_meta_to_parents(parent_nodes) with self.doc_metadata = meta
ApplyDocMetaToParents(nodes, meta) ==
    IF meta = <<>> THEN nodes
    ELSE [k \in 1..Len(nodes) |-> ApplyDocMetaToNode(nodes[k], meta)]

RECURSIVE DigitRun(_, _)
DigitRun(s, i) == IF i <= Len(s) /\ s[i] \in Digits THEN 1 + DigitRun(s, i + 1) ELSE 0

RECURSIVE NonSpaceEnd(_, _)
\* last index of the run of non-whitespace characters that starts at i
NonSpaceEnd(s, i) == IF i + 1 <= Len(s) /\ s[i + 1] \notin WS THEN NonSpaceEnd(s, i + 1) ELSE i

\* doi_pattern = 10\.\d{4,9}/\S+ matches at index i
DoiAt(s, i) ==
    /\ i + 2 <= Len(s)
    /\ s[i] = "1" /\ s[i + 1] = "0" /\ s[i + 2] = "."
    /\ LET r == DigitRun(s, i + 3)
       IN  /\ r >= 4 /\ r <= 9
           /\ i + 3 + r + 1 <= Len(s)
           /\ s[i + 3 + r] = "/"
           /\ s[i + 3 + r + 1] \notin WS

RECURSIVE RStripChars(_, _)
\* str.rstrip(chars)
RStripChars(s, chars) ==
    IF s # <<>> /\ s[Len(s)] \in chars THEN RStripChars(Slice(s, 1, Len(s) - 1), chars) ELSE s

\* doi_pattern.search(text): m.group(0).strip().rstrip(".,)") or None
DoiSearch(text) ==
    LET C == {i \in 1..Len(text) : DoiAt(text, i)}
    IN  IF C = {} THEN None
        ELSE LET i == Min(C)
                 e == NonSpaceEnd(text, i + 3 + DigitRun(text, i + 3) + 1)
             IN  Str(RStripChars(Strip(Slice(text, i, e)), {".", ",", ")"}))

\* what the completion collaborator can answer to one prompt
ReplyKinds == {"fail", "doi", "authors", "both", "doi_not_str"}

\* the replies that are a failed call, or not a JSON object of the shape
\* {doi: string|null, authors: [string...]}
FailedReplies == {"fail", "doi_not_str"}

LlmDoi == <<"1", "0", ".", "9", "/", "y", " ">>

LlmAuthors == << <<"b", " ">> >>

\* _llm_extract_fields: the dict it returns for a reply of the given kind; a
\* failed call and an unparseable reply both give {"doi": None, "authors": []}
LlmExtractFields(kind) ==
    CASE kind = "fail"        -> [doi |-> None, authors |-> <<>>]
      [] kind = "doi"         -> [doi |-> Str(LlmDoi), authors |-> <<>>]
      [] kind = "authors"     -> [doi |-> None, authors |-> LlmAuthors]
      [] kind = "both"        -> [doi |-> Str(LlmDoi), authors |-> LlmAuthors]
      [] kind = "doi_not_str" -> [doi |-> [k |-> "num"], authors |-> <<>>]

\* [a.strip() for a in fields["authors"] if a and isinstance(a, str)]
CleanAuthors(authors) ==
    [k \in 1..Len(SelectSeq(authors, LAMBDA a : a # <<>>)) |->
        Strip(SelectSeq(authors, LAMBDA a : a # <<>>)[k])]

\* what one completion call does to the loop state (lines 457-461): the new
\* doi and authors, or the exception of fields["doi"].strip()
AfterReply(kind, need_doi, need_authors, doi, authors) ==
    LET fields == LlmExtractFields(kind)
    IN  IF need_doi /\ fields.doi.k = "num"
        THEN [doi |-> doi, authors |-> authors, raised |-> TRUE]
        ELSE [doi |-> IF need_doi /\ Truthy(fields.doi)
                      THEN Str(Strip(fields.doi.v)) ELSE doi,
              authors |-> IF need_authors /\ fields.authors # <<>>
                          THEN CleanAuthors(fields.authors) ELSE authors,
              raised |-> FALSE]

RECURSIVE ExtractLoop(_, _, _, _, _, _)
\* "for parent in nodes" (lines 446-464) from position k of the group on: the
\* set of results it can end with, one for every way the completion
\* collaborator can answer the calls it makes
ExtractLoop(nodes, group, k, doi, authors, log) ==
    IF k > Len(group)
    THEN {[doi |-> doi, authors |-> authors, log |-> log, raised |-> FALSE]}
    ELSE LET parent   == nodes[group[k]]
             need_doi == doi = None
             doi1     == IF need_doi /\ DoiSearch(parent.text) # None
                         THEN DoiSearch(parent.text) ELSE doi
             need_authors == authors = <<>>
         IN  IF ~need_doi /\ ~need_authors
             THEN {[doi |-> doi1, authors |-> authors, log |-> log, raised |-> FALSE]}
             ELSE UNION {
                    LET r    == AfterReply(kind, need_doi, need_authors, doi1, authors)
                        log1 == Append(log, [node_id |-> parent.node_id,
                                             doc_id |-> parent.doc_id,
                                             need_doi |-> need_doi,
                                             need_authors |-> need_authors,
                                             doi_known |-> doi1 # None,
                                             doi |-> doi1,
                                             authors |-> authors,
                                             found |-> r.doi # doi1 \/ r.authors # authors])
                    IN  IF r.raised \/ (Truthy(r.doi) /\ r.authors # <<>>)
                        THEN {[doi |-> r.doi, authors |-> r.authors, log |-> log1,
                               raised |-> r.raised]}
                        ELSE ExtractLoop(nodes, group, k + 1, r.doi, r.authors, log1)
                    : kind \in ReplyKinds }

\* the doc ids of the parents in order of first appearance (doc_groups.keys())
RECURSIVE DocOrder(_, _, _)
DocOrder(nodes, k, seen) ==
    IF k > Len(nodes) THEN <<>>
    ELSE IF nodes[k].doc_id \in seen THEN DocOrder(nodes, k + 1, seen)
    ELSE <<nodes[k].doc_id>> \o DocOrder(nodes, k + 1, seen \cup {nodes[k].doc_id})

RECURSIVE GroupOf(_, _, _)
\* doc_groups[doc_id]: the positions of the document's parents, in order
GroupOf(nodes, id, k) ==
    IF k > Len(nodes) THEN <<>>
    ELSE (IF nodes[k].doc_id = id THEN <<k>> ELSE <<>>) \o GroupOf(nodes, id, k + 1)

RECURSIVE ExtractDocs(_, _, _, _, _)
\* "for doc_id, nodes in doc_groups.items()" (lines 439-473): the set of
\* results, an exception ending the loop
ExtractDocs(nodes, order, d, extracted, log) ==
    IF d > Len(order) THEN {[extracted |-> extracted, log |-> log, raised |-> FALSE]}
    ELSE LET group == GroupOf(nodes, order[d], 1)
         IN  UNION {
               IF r.raised THEN {[extracted |-> extracted, log |-> r.log, raised |-> TRUE]}
               ELSE ExtractDocs(nodes, order, d + 1,
                                (order[d] :> [doc_id |-> order[d],
                                              title |-> nodes[group[1]].doc_title,
                                              doi |-> r.doi,
                                              authors |-> r.authors]) @@ extracted,
                                r.log)
               : r \in ExtractLoop(nodes, group, 1, None, <<>>, log) }

\* the state one result of the extraction loop leaves (lines 475-478)
AfterExtraction(r, nodes, meta, disk) ==
    IF r.raised
    THEN [doc_metadata |-> meta, parent_nodes |-> nodes,
          disk |-> disk, log |-> r.log, outcome |-> "raised", path |-> "fresh"]
    ELSE [doc_metadata |-> r.extracted,
          parent_nodes |-> ApplyDocMetaToParents(nodes, r.extracted),
          disk |-> PersistDocMetadata(disk, r.extracted),
          log |-> r.log, outcome |-> "returned", path |-> "fresh"]

\* _extract_doc_metadata(parent_nodes, reextract): the states it can leave
ExtractDocMetadata(nodes, reextract, meta, disk) ==
    LET cached == LoadDocMetadata(disk)
    IN  IF ~reextract /\ cached # <<>>
        THEN {[doc_metadata |-> cached,
               parent_nodes |-> ApplyDocMetaToParents(nodes, cached),
               disk |-> disk, log |-> <<>>, outcome |-> "returned", path |-> "cache"]}
        ELSE {AfterExtraction(r, nodes, meta, disk) :
                r \in ExtractDocs(nodes, DocOrder(nodes, 1, {}), 1, <<>>, <<>>)}

-----------------------------------------------------------------------------
(* RetrievalHit and BM25KeywordIndexer *)

\* RetrievalHit(node, vec_score, kw_score, kw_raw): "x or 0.0" keeps the value
\* (0 and None both give 0), score starts at 0
RetrievalHit(node, vec_score, kw_score, kw_raw) ==
    [node |-> node, vec_score |-> vec_score, kw_score |-> kw_score,
     kw_raw |-> kw_raw, score |-> 0]

\* token_pattern = r"[a-zA-Z]{2,}"
DefaultTokenPattern == [class |-> AlphaChars, minlen |-> 2]

\* the fallback pattern r"\w{2,}"
FallbackTokenPattern == [class |-> WordChars, minlen |-> 2]

RECURSIVE RunEnd(_, _, _)
\* last index of the run of characters of the class that starts at i
RunEnd(s, i, class) ==
    IF i + 1 <= Len(s) /\ s[i + 1] \in class THEN RunEnd(s, i + 1, class) ELSE i

RECURSIVE FindAll(_, _, _)
\* re.findall(pattern, s) for a pattern class{minlen,}: the maximal runs of
\* the class that are long enough, left to right
FindAll(pattern, s, pos) ==
    IF pos > Len(s) THEN <<>>
    ELSE IF s[pos] \notin pattern.class THEN FindAll(pattern, s, pos + 1)
    ELSE LET e == RunEnd(s, pos, pattern.class)
         IN  (IF e - pos + 1 >= pattern.minlen THEN <<Slice(s, pos, e)>> ELSE <<>>)
             \o FindAll(pattern, s, e + 1)

\* BM25KeywordIndexer._tokenize_text
TokenizeText(token_pattern, text) ==
    LET tokens == FindAll(token_pattern, Lower(text), 1)
    IN  IF tokens # <<>> THEN tokens ELSE FindAll(FallbackTokenPattern, Lower(text), 1)

\* BM25KeywordIndexer._tokenize_node
TokenizeNode(token_pattern, boost_header, node) ==
    LET header == MetaGet(node, "section_header")
        combined == IF boost_header /\ header # <<>>
                    THEN header \o <<" ">> \o header \o <<" ">> \o node.text
                    ELSE IF header # <<>> THEN header \o <<" ">> \o node.text
                    ELSE node.text
    IN  TokenizeText(token_pattern, combined)

\* {n.node_id: n for n in nodes}: the last node of an id wins
NodeLookup(nodes) ==
    [id \in {nodes[k].node_id : k \in 1..Len(nodes)} |->
        nodes[Max({k \in 1..Len(nodes) : nodes[k].node_id = id})]]

\* the indexer that keeps the nodes without a token
KeywordIndexerKeepEmpty(nodes, token_pattern, boost_header) ==
    [token_pattern |-> token_pattern,
     boost_header |-> boost_header,
     node_lookup |-> NodeLookup(nodes),
     node_ids |-> [k \in 1..Len(nodes) |-> nodes[k].node_id],
     tokenized_docs |-> [k \in 1..Len(nodes) |->
                            TokenizeNode(token_pattern, boost_header, nodes[k])]]

\* BM25KeywordIndexer.__init__(nodes, token_pattern, boost_header)
KeywordIndexer(nodes, token_pattern, boost_header) ==
    LET kept == SelectSeq([k \in 1..Len(nodes) |->
                              [node_id |-> nodes[k].node_id,
                               tokens |-> TokenizeNode(token_pattern, boost_header, nodes[k])]],
                          LAMBDA x : x.tokens # <<>>)
    IN  [token_pattern |-> token_pattern,
         boost_header |-> boost_header,
         node_lookup |-> NodeLookup(nodes),
         node_ids |-> [k \in 1..Len(kept) |-> kept[k].node_id],
         tokenized_docs |-> [k \in 1..Len(kept) |-> kept[k].tokens]]

\* BM25KeywordIndexer.from_disk(data, nodes), data being the dict read from
\* keyword_index.json: only its token_pattern is used, boost_header is the
\* default of __init__
FromDisk(data, nodes) == KeywordIndexer(nodes, data.token_pattern, TRUE)

\* math.log1p(raw_score) in thousandths, for the raw scores of the model
Log1p(raw) ==
    CASE raw = 1 -> 693 [] raw = 2 -> 1099 [] raw = 3 -> 1386 [] raw = 4 -> 1609
      [] OTHER -> 1792

\* seq[:k] of Python, k possibly negative
Prefix(seq, k) ==
    IF k >= 0 THEN Slice(seq, 1, k) ELSE Slice(seq, 1, Len(seq) + k)

RECURSIVE InsertDesc(_, _, _)
\* index x put into the list of indices sorted by key, descending, behind the
\* indices of equal key
InsertDesc(sorted, x, keys) ==
    IF sorted = <<>> THEN <<x>>
    ELSE IF keys[Head(sorted)] >= keys[x]
         THEN <<Head(sorted)>> \o InsertDesc(Tail(sorted), x, keys)
         ELSE <<x>> \o sorted

RECURSIVE OrderDesc(_, _)
\* the first k indices of keys in the order of sorted(..., reverse=True):
\* stable, indices of equal key keep their order
OrderDesc(keys, k) ==
    IF k = 0 THEN <<>> ELSE InsertDesc(OrderDesc(keys, k - 1), k, keys)

\* the list left in the order it came in
Unsorted(seq, keys) == seq

\* sorted(seq, key=..., reverse=True), keys[k] being the key of seq[k]
SortDesc(seq, keys) ==
    LET order == OrderDesc(keys, Len(seq))
    IN  [k \in 1..Len(seq) |-> seq[order[k]]]

\* the hits of retrieve for the ranked (idx, raw_score) pairs that passed
KeywordHits(kwi, top) ==
    [k \in 1..Len(top) |->
        RetrievalHit(kwi.node_lookup[kwi.node_ids[top[k].idx]],
                     0, Log1p(top[k].raw), top[k].raw)]

\* retrieve that keeps the results whose raw score is not positive
KeywordRetrieveNoFloor(kwi, query, top_k, scores) ==
    IF kwi.tokenized_docs = <<>> \/ kwi.node_ids = <<>> THEN <<>>
    ELSE IF TokenizeText(kwi.token_pattern, query) = <<>> THEN <<>>
    ELSE KeywordHits(kwi, Prefix(SortDesc([k \in 1..Len(kwi.node_ids) |->
                                              [idx |-> k, raw |-> scores[k]]], scores),
                                 top_k))

\* retrieve that scores the segments also for a query without a token
KeywordRetrieveAnyQuery(kwi, query, top_k, scores) ==
    IF kwi.tokenized_docs = <<>> \/ kwi.node_ids = <<>> THEN <<>>
    ELSE KeywordHits(kwi, SelectSeq(Prefix(SortDesc([k \in 1..Len(kwi.node_ids) |->
                                                       [idx |-> k, raw |-> scores[k]]], scores),
                                           top_k),
                                    LAMBDA x : x.raw > 0))

\* BM25KeywordIndexer.retrieve(query, top_k); scores is what
\* self.bm25.get_scores(q_tokens) returns, one raw score per indexed document
KeywordRetrieve(kwi, query, top_k, scores) ==
    IF kwi.tokenized_docs = <<>> \/ kwi.node_ids = <<>> THEN <<>>
    ELSE IF TokenizeText(kwi.token_pattern, query) = <<>> THEN <<>>
    ELSE LET pairs  == [k \in 1..Len(kwi.node_ids) |-> [idx |-> k, raw |-> scores[k]]]
             ranked == SortDesc(pairs, scores)
             top    == SelectSeq(Prefix(ranked, top_k),
                                 LAMBDA x : x.raw > 0
                                            /\ kwi.node_ids[x.idx] \in DOMAIN kwi.node_lookup)
         IN  KeywordHits(kwi, top)

-----------------------------------------------------------------------------
(* _infer_doc_id, _enrich_node_metadata, dual_retrieve_hits *)

\* the text is one or more digits
IsDigits(s) == s # <<>> /\ \A k \in 1..Len(s) : s[k] \in Digits

\* (h\d+|preface|tbl\d+|p\d+_\d+) matches the whole text
IsNodeSuffix(s) ==
    \/ Len(s) >= 2 /\ s[1] = "h" /\ IsDigits(Slice(s, 2, Len(s)))
    \/ s = <<"p", "r", "e", "f", "a", "c", "e">>
    \/ Len(s) >= 4 /\ Slice(s, 1, 3) = <<"t", "b", "l">> /\ IsDigits(Slice(s, 4, Len(s)))
    \/ /\ Len(s) >= 4 /\ s[1] = "p"
       /\ \E u \in 3..(Len(s) - 1) :
             s[u] = "_" /\ IsDigits(Slice(s, 2, u - 1)) /\ IsDigits(Slice(s, u + 1, Len(s)))

\* re.sub(r"_(h\d+|preface|tbl\d+|p\d+_\d+)$", "", base)
StripNodeSuffix(base) ==
    LET C == {i \in 1..Len(base) : base[i] = "_" /\ IsNodeSuffix(Slice(base, i + 1, Len(base)))}
    IN  IF C = {} THEN base ELSE Slice(base, 1, Min(C) - 1)

\* _infer_doc_id(node)
InferDocId(node) ==
    IF MetaGet(node, "doc_id") # <<>> THEN node.doc_id
    ELSE StripNodeSuffix(IF MetaGet(node, "parent_node_id") # <<>>
                         THEN node.parent_node_id ELSE node.node_id)

\* metadata.setdefault(key, value) on a node
SetDefault(node, key, value) ==
    IF key \in DOMAIN node THEN node ELSE With(node, key, value)

\* _enrich_node_metadata(node) with self.doc_metadata = meta
EnrichNodeMetadata(node, meta) ==
    LET doc_id == InferDocId(node)
    IN  IF doc_id \in DOMAIN meta
        THEN SetDefault(SetDefault(SetDefault(SetDefault(node, "doc_id", doc_id),
                                              "doc_title", meta[doc_id].title),
                                   "doc_doi", meta[doc_id].doi),
                        "doc_authors", meta[doc_id].authors)
        ELSE SetDefault(node, "doc_id", doc_id)

\* a score the dense retriever attached to a node (NodeWithScore.score is
\* None or a number), in thousandths
Num(v) == [k |-> "num", v |-> v]

\* position of the hit of the node id in the merged dict, 0 if it has none
MergedPos(merged, nid) ==
    LET P == {k \in 1..Len(merged) : merged[k].node.node_id = nid}
    IN  IF P = {} THEN 0 ELSE Min(P)

\* the larger of two scores
MaxOf(a, b) == IF a >= b THEN a ELSE b

RECURSIVE MergeVec(_, _, _)
\* for n in vec_nodes (lines 783-787); merged is the dict in insertion order
MergeVec(merged, vec_nodes, k) ==
    IF k > Len(vec_nodes) THEN merged
    ELSE LET n     == vec_nodes[k]
             score == IF n.score = None THEN 0 ELSE n.score.v   \* n.score or 0.0
             pos   == MergedPos(merged, n.node.node_id)
         IN  IF pos = 0
             THEN MergeVec(Append(merged, [RetrievalHit(n.node, 0, 0, 0)
                                              EXCEPT !.vec_score = MaxOf(0, score)]),
                           vec_nodes, k + 1)
             ELSE MergeVec([merged EXCEPT ![pos].vec_score = MaxOf(@, score)],
                           vec_nodes, k + 1)

RECURSIVE MergeKw(_, _, _)
\* for n in kw_nodes (lines 789-794)
MergeKw(merged, kw_nodes, k) ==
    IF k > Len(kw_nodes) THEN merged
    ELSE LET n   == kw_nodes[k]
             pos == MergedPos(merged, n.node.node_id)
         IN  IF pos = 0
             THEN MergeKw(Append(merged, [RetrievalHit(n.node, 0, 0, 0)
                                             EXCEPT !.kw_score = MaxOf(0, n.kw_score),
                                                    !.kw_raw = MaxOf(0, n.kw_raw)]),
                          kw_nodes, k + 1)
             ELSE MergeKw([merged EXCEPT ![pos].kw_score = MaxOf(@, n.kw_score),
                                         ![pos].kw_raw = MaxOf(@, n.kw_raw)],
                          kw_nodes, k + 1)

\* the fused score with the keyword part subtracted
FuseDifference(alpha, beta, hit) == alpha * hit.vec_score - beta * hit.kw_score

\* hit.score = alpha * hit.vec_score + beta * hit.kw_score
Fuse(alpha, beta, hit) == alpha * hit.vec_score + beta * hit.kw_score

\* for hit in merged.values(): enrich the node, compute the fused score
Scored(merged, alpha, beta, meta) ==
    [k \in 1..Len(merged) |->
        [merged[k] EXCEPT !.node = EnrichNodeMetadata(@, meta),
                          !.score = Fuse(alpha, beta, merged[k])]]

NoRetrieval ==
    [outcome |-> "none", args |-> <<>>, vec_nodes |-> <<>>, bm25_scores |-> <<>>,
     kw_nodes |-> <<>>,
     merged |-> <<>>, hits |-> <<>>, dense_calls |-> 0, kw_calls |-> 0]

\* dual_retrieve_hits past its guards (lines 776-802): vec_nodes is the answer
\* of the dense retriever, scores the raw scores of the BM25 object
RetrieveAndMerge(kwindex, meta, args, vec_nodes, scores) ==
    LET use_kw   == args.use_keyword /\ args.top_k_keyword > 0
        kw_nodes == IF use_kw
                    THEN KeywordRetrieve(kwindex, args.question, args.top_k_keyword, scores)
                    ELSE <<>>
        merged   == Scored(MergeKw(MergeVec(<<>>, vec_nodes, 1), kw_nodes, 1),
                           args.alpha, args.beta, meta)
    IN  [outcome |-> "returned", args |-> args,
         vec_nodes |-> vec_nodes,
         bm25_scores |-> scores,
         kw_nodes |-> kw_nodes,
         merged |-> merged,
         hits |-> Prefix(SortDesc(merged, [k \in 1..Len(merged) |-> merged[k].score]),
                         args.merge_top_k),
         dense_calls |-> 1,
         kw_calls |-> IF use_kw THEN 1 ELSE 0]

\* dual_retrieve_hits without the guard on the keyword index: dense retrieval
\* only when there is no keyword index
DualRetrieveHitsKeywordUnguarded(vindex, kwindex, meta, args, vec_nodes, scores) ==
    IF vindex = None
    THEN [NoRetrieval EXCEPT !.outcome = "raised", !.args = args]
    ELSE IF kwindex = None
    THEN RetrieveAndMerge(kwindex, meta, [args EXCEPT !.top_k_keyword = 0], vec_nodes, scores)
    ELSE RetrieveAndMerge(kwindex, meta, args, vec_nodes, scores)

\* dual_retrieve_hits(question, top_k_vector, top_k_keyword, merge_top_k, alpha,
\* beta, use_keyword): what it raises or returns
DualRetrieveHits(vindex, kwindex, meta, args, vec_nodes, scores) ==
    IF vindex = None
    THEN [NoRetrieval EXCEPT !.outcome = "raised", !.args = args]
    ELSE IF args.use_keyword /\ kwindex = None
    THEN [NoRetrieval EXCEPT !.outcome = "raised", !.args = args]
    ELSE RetrieveAndMerge(kwindex, meta, args, vec_nodes, scores)

-----------------------------------------------------------------------------
(* Construction: MedicalRAGSystem.__init__ *)

\* values of paragraph_chunk_chars: one below the floor, one above it
ChunkCharsChoices == {150, 250}

\* values of max_embed_chars: the default, and one below the floor
EmbedCharsChoices == {6000, 300}

InitConfig ==
    /\ paragraph_chunk_chars \in ChunkCharsChoices
    /\ max_embed_chars \in EmbedCharsChoices

DefaultConfig ==
    /\ paragraph_chunk_chars = 1200
    /\ max_embed_chars = 6000

IdlePipe ==
    /\ documents = <<>>
    /\ parent_nodes = <<>>
    /\ enhanced_nodes = <<>>
    /\ pc = "idle"

IdleChunk ==
    /\ arg_paragraph = <<>>
    /\ ret_chunks = <<>>
    /\ chunked = FALSE

NoCall == [run_no |-> 0, reextract |-> FALSE, outcome |-> "none", path |-> "none"]

\* self.doc_metadata = {} and no doc_metadata.json yet
IdleMeta ==
    /\ doc_metadata = <<>>
    /\ disk_doc_metadata = [exists |-> FALSE, data |-> <<>>]
    /\ llm_log = <<>>
    /\ meta_call = NoCall

NoIndexCall ==
    [force_rebuild |-> FALSE, build_keyword_index |-> FALSE,
     outcome |-> "none", path |-> "none", embed_calls |-> 0, documents |-> <<>>]

NoStorage == [dir |-> FALSE, vector |-> None, kw_file |-> None, parent_map |-> None]

\* self.index = self.vector_index = self.keyword_index = None,
\* self.parent_text_map = {}, and no persist_dir yet
IdleIndex ==
    /\ vector_index = None
    /\ keyword_index = None
    /\ parent_text_map = <<>>
    /\ storage = NoStorage
    /\ index_call = NoIndexCall

\* no BM25KeywordIndexer.retrieve call in progress
NoKeywordCall ==
    [outcome |-> "none", query |-> <<>>, top_k |-> 0, scores |-> <<>>, hits |-> <<>>]

IdleRetrieval ==
    /\ ret = NoRetrieval
    /\ prev_ret = NoRetrieval
    /\ kw_call = NoKeywordCall

-----------------------------------------------------------------------------
(* The build pipeline: documents -> parent blocks -> child segments *)

Doc(text, stem) == [text |-> text, folder |-> <<"v">>, stem |-> stem]

BuildParents ==
    /\ pc = "loaded"
    /\ parent_nodes' = BuildParentNodes(documents)
    /\ pc' = "parents"
    /\ UNCHANGED <<documents, enhanced_nodes, configVars, chunkVars, metaVars, indexVars, retrVars>>

SplitSegments ==
    /\ pc = "parents"
    /\ enhanced_nodes' = SplitAll(parent_nodes, 1, paragraph_chunk_chars, max_embed_chars)
    /\ pc' = "segments"
    /\ UNCHANGED <<documents, parent_nodes, configVars, chunkVars, metaVars, indexVars, retrVars>>

NextPipe == BuildParents \/ SplitSegments

(* Small documents, every character sequence over the pieces *)

MaxDocPieces == 4

DocPieces == {<<"#">>, <<" ">>, <<"\n">>, <<"\r">>, <<"a">>, <<"#", " ", "a", "\n">>}

DocTexts == {Concat(ps) : ps \in SeqsUpTo(DocPieces, MaxDocPieces)}

\* one document, or the same text cut into two documents
Corpora ==
    {<<Doc(t, <<"d">>)>> : t \in DocTexts}
    \cup {<<Doc(Slice(t, 1, k), <<"d">>), Doc(Slice(t, k + 1, Len(t)), <<"e">>)>> :
            t \in DocTexts, k \in {1, 2}}

InitPipe ==
    /\ DefaultConfig
    /\ documents \in Corpora
    /\ parent_nodes = <<>>
    /\ enhanced_nodes = <<>>
    /\ pc = "loaded"
    /\ IdleChunk
    /\ IdleMeta
    /\ IdleIndex
    /\ IdleRetrieval

SpecPipe == InitPipe /\ [][NextPipe]_vars

(* Documents with headings of two levels *)

\* the longest document, in pieces
MaxHeadingPieces == 3

\* a text line before any heading, a level-1 section "A", a level-2 section
\* "summary", a level-1 section "B"
HeadingPieces ==
    {<<"t", "e", "x", "t", "0", "\n">>,
     <<"#", " ", "A", "\n", "t", "e", "x", "t", "1", "\n", "\n">>,
     <<"#", "#", " ", "s", "u", "m", "m", "a", "r", "y", "\n", "t", "e", "x", "t", "2", "\n">>,
     <<"#", " ", "B", "\n", "t", "e", "x", "t", "3", "\n">>}

\* the document "# A\ntext1\n\n## summary\ntext2\n# B\ntext3"
ScenarioText ==
    <<"#", " ", "A", "\n", "t", "e", "x", "t", "1", "\n", "\n", "#", "#", " ", "s", "u", "m", "m", "a", "r", "y", "\n", "t", "e", "x", "t", "2", "\n", "#", " ", "B", "\n", "t", "e", "x", "t", "3">>

HeadingTexts ==
    {Concat(ps) : ps \in SeqsUpTo(HeadingPieces, MaxHeadingPieces)} \cup {ScenarioText}

InitHeadings ==
    /\ DefaultConfig
    /\ documents \in {<<Doc(t, <<"d">>)>> : t \in HeadingTexts}
    /\ parent_nodes = <<>>
    /\ enhanced_nodes = <<>>
    /\ pc = "loaded"
    /\ IdleChunk
    /\ IdleMeta
    /\ IdleIndex
    /\ IdleRetrieval

SpecHeadings == InitHeadings /\ [][NextPipe]_vars

(* Documents collected from a directory tree *)

\* the .md files under data_dir, as collect_doc_files returns them (sorted by
\* path): data_dir/p/d.md, data_dir/p/e.md, data_dir/q/p/d.md
TreeFiles ==
    <<[dir |-> <<>>, folder |-> <<"p">>, stem |-> <<"d">>],
      [dir |-> <<>>, folder |-> <<"p">>, stem |-> <<"e">>],
      [dir |-> <<"q">>, folder |-> <<"p">>, stem |-> <<"d">>]>>

\* contents of the files: no heading, one heading, a preface and two headings
TreeTexts ==
    {<<"a">>,
     <<"#", " ", "a", "\n">>,
     <<"b", "\n", "#", " ", "a", "\n", "#", " ", "a">>}

\* the document SimpleDirectoryReader loads from a file: its text, and the
\* file_path the folder name and the stem are read from
TreeDoc(file, text) ==
    [text |-> text, folder |-> file.folder, stem |-> file.stem, dir |-> file.dir]

\* load_documents(): the documents of the files that exist, in path order
TreeCorpora ==
    {LET idx == SelectSeq(<<1, 2, 3>>, LAMBDA k : present[k])
     IN  [j \in 1..Len(idx) |-> TreeDoc(TreeFiles[idx[j]], texts[idx[j]])] :
        present \in [1..3 -> BOOLEAN] \ {[k \in 1..3 |-> FALSE]},
        texts \in [1..3 -> TreeTexts]}

InitTree ==
    /\ DefaultConfig
    /\ documents \in TreeCorpora
    /\ parent_nodes = <<>>
    /\ enhanced_nodes = <<>>
    /\ pc = "loaded"
    /\ IdleChunk
    /\ IdleMeta
    /\ IdleIndex
    /\ IdleRetrieval

SpecTree == InitTree /\ [][NextPipe]_vars

(* Parents with runs of text and tables longer than the embedding limit *)

\* the longest parent text, in pieces
MaxCapPieces == 3

\* a run of 350 characters without a sentence end
LongRun == Rep("a", 350)

\* a table of more than 500 characters
LongTable == <<"<", "t", "a", "b", "l", "e", ">">> \o Rep("b", 490) \o <<"<", "/", "t", "a", "b", "l", "e", ">">>

\* a run, a table, a paragraph break
CapPieces == {LongRun, LongTable, <<"\n", "\n">>}

CapTexts == {Concat(ps) : ps \in SeqsUpTo(CapPieces, MaxCapPieces)}

InitCap ==
    /\ InitConfig
    /\ documents \in {<<Doc(t, <<"d">>)>> : t \in CapTexts}
    /\ parent_nodes = <<>>
    /\ enhanced_nodes = <<>>
    /\ pc = "loaded"
    /\ IdleChunk
    /\ IdleMeta
    /\ IdleIndex
    /\ IdleRetrieval

SpecCap == InitCap /\ [][NextPipe]_vars

(* Larger documents: headings, tables, blank lines, short and long sentences *)

MaxSegPieces == 4

LongSentence == Rep("a", 120) \o <<".">>

SegPieces ==
    {<<"#", " ", "a", "\n">>,
     <<"<", "t", "a", "b", "l", "e", ">", "a", "<", "/", "t", "a", "b", "l", "e", ">">>,
     <<"<", "T", "a", "b", "l", "e", " ", "b", ">", "\n", "\n", "<", "/", "T", "A", "B", "L", "E", ">">>,
     <<"\n", "\n">>,
     <<"a", ".", " ">>,
     LongSentence \o <<"\n">>}

SegTexts == {Concat(ps) : ps \in SeqsUpTo(SegPieces, MaxSegPieces)}

InitSeg ==
    /\ InitConfig
    /\ documents \in {<<Doc(t, <<"d">>)>> : t \in SegTexts}
    /\ parent_nodes = <<>>
    /\ enhanced_nodes = <<>>
    /\ pc = "loaded"
    /\ IdleChunk
    /\ IdleMeta
    /\ IdleIndex
    /\ IdleRetrieval

SpecSeg == InitSeg /\ [][NextPipe]_vars

-----------------------------------------------------------------------------
(* The paragraph chunker on its own *)

MaxParaPieces == 4

ParaPieces ==
    {<<"a", ".", " ">>, <<"a">>, <<"\n">>,
     Rep("a", 99) \o <<"?">>,
     Rep("a", 250) \o <<"!">>}

ParaTexts == {Concat(ps) : ps \in SeqsUpTo(ParaPieces, MaxParaPieces)}

InitChunk ==
    /\ paragraph_chunk_chars \in ChunkCharsChoices
    /\ max_embed_chars = 6000
    /\ IdlePipe
    /\ IdleMeta
    /\ IdleIndex
    /\ IdleRetrieval
    /\ arg_paragraph \in ParaTexts
    /\ ret_chunks = <<>>
    /\ chunked = FALSE

CallChunkParagraph ==
    /\ ~chunked
    /\ ret_chunks' = ChunkParagraph(arg_paragraph, paragraph_chunk_chars)
    /\ chunked' = TRUE
    /\ UNCHANGED <<arg_paragraph, configVars, pipeVars, metaVars, indexVars, retrVars>>

NextChunk == CallChunkParagraph

SpecChunk == InitChunk /\ [][NextChunk]_vars

-----------------------------------------------------------------------------
(* Metadata extraction over the parents of a small corpus *)

MaxMetaPieces == 2

MaxRuns == 2

MetaPieces ==
    {<<"#", " ", "a", "\n">>,
     <<"b", "\n">>,
     <<"1", "0", ".", "1", "2", "3", "4", "/", "x", ".", "\n">>,
     <<"1", "0", ".", "1", "2", "3", "/", "x", "\n">>}

MetaTexts == {Concat(ps) : ps \in SeqsUpTo(MetaPieces, MaxMetaPieces)}

\* a second document that may be added to the data directory between builds
ExtraDoc == Doc(<<"#", " ", "c">>, <<"e">>)

InitMeta ==
    /\ DefaultConfig
    /\ documents \in {<<Doc(t, <<"d">>)>> : t \in MetaTexts}
    /\ parent_nodes = <<>>
    /\ enhanced_nodes = <<>>
    /\ pc = "loaded"
    /\ IdleChunk
    /\ IdleMeta
    /\ IdleIndex
    /\ IdleRetrieval

\* a call of _extract_doc_metadata(parent_nodes, reextract)
CallExtractDocMetadata ==
    /\ pc \in {"parents", "extracted"}
    /\ meta_call.run_no < MaxRuns
    /\ \E reextract \in BOOLEAN :
          \E r \in ExtractDocMetadata(parent_nodes, reextract, doc_metadata,
                                      disk_doc_metadata) :
              /\ doc_metadata' = r.doc_metadata
              /\ parent_nodes' = r.parent_nodes
              /\ disk_doc_metadata' = r.disk
              /\ llm_log' = r.log
              /\ meta_call' = [run_no |-> meta_call.run_no + 1, reextract |-> reextract,
                               outcome |-> r.outcome, path |-> r.path]
    /\ pc' = "extracted"
    /\ UNCHANGED <<documents, enhanced_nodes, configVars, chunkVars, indexVars, retrVars>>

\* the documents are loaded again (load_documents), the second document
\* being present or not; with restart, by a new engine on the same persist_dir
ReloadDocuments ==
    /\ pc = "extracted"
    /\ \E extra \in BOOLEAN, restart \in BOOLEAN :
          /\ documents' = IF extra THEN <<documents[1], ExtraDoc>> ELSE <<documents[1]>>
          /\ doc_metadata' = IF restart THEN <<>> ELSE doc_metadata
    /\ parent_nodes' = <<>>
    /\ pc' = "loaded"
    /\ llm_log' = <<>>
    /\ meta_call' = NoCall
    /\ UNCHANGED <<disk_doc_metadata, enhanced_nodes, configVars, chunkVars, indexVars, retrVars>>

NextMeta == BuildParents \/ CallExtractDocMetadata \/ ReloadDocuments

SpecMeta == InitMeta /\ [][NextMeta]_vars

(* Fresh extractions over documents of several parents, some with a DOI in
   their text *)

MaxExtractPieces == 3

ExtractPieces ==
    {<<"b", "\n">>,
     <<"#", " ", "a", "\n">>,
     <<"#", " ", "1", "0", ".", "1", "2", "3", "4", "/", "x", "\n">>}

ExtractTexts == {Concat(ps) : ps \in SeqsUpTo(ExtractPieces, MaxExtractPieces)}

InitExtract ==
    /\ DefaultConfig
    /\ documents \in {<<Doc(t, <<"d">>)>> : t \in ExtractTexts}
    /\ parent_nodes = <<>>
    /\ enhanced_nodes = <<>>
    /\ pc = "loaded"
    /\ IdleChunk
    /\ IdleMeta
    /\ IdleIndex
    /\ IdleRetrieval

NextExtract == BuildParents \/ CallExtractDocMetadata

SpecExtract == InitExtract /\ [][NextExtract]_vars

-----------------------------------------------------------------------------
(* create_index *)

\* {node.node_id: node.text for node in parent_nodes}
ParentTextMap(nodes) ==
    [id \in {nodes[k].node_id : k \in 1..Len(nodes)} |->
        nodes[Max({k \in 1..Len(nodes) : nodes[k].node_id = id})].text]

\* _persist_keyword_index with self.keyword_index = kwi
PersistKeywordIndex(st, kwi) ==
    IF kwi = None THEN st
    ELSE [st EXCEPT !.dir = TRUE,
                    !.kw_file = [token_pattern |-> kwi.token_pattern,
                                 node_ids |-> kwi.node_ids,
                                 tokenized_docs |-> kwi.tokenized_docs]]

\* _persist_parent_map with self.parent_text_map = map
PersistParentMap(st, map) ==
    IF map = <<>> THEN st ELSE [st EXCEPT !.dir = TRUE, !.parent_map = map]

\* os.path.exists(self.persist_dir): every file of the model lives in it
PersistDirExists(st, disk) == st.dir \/ disk.exists

\* the state of the engine and of its files that create_index reads and writes
EngineState ==
    [vector_index |-> vector_index, keyword_index |-> keyword_index,
     parent_text_map |-> parent_text_map, storage |-> storage,
     doc_metadata |-> doc_metadata, disk |-> disk_doc_metadata,
     parent_nodes |-> parent_nodes, enhanced_nodes |-> enhanced_nodes,
     log |-> llm_log, meta_call |-> meta_call,
     outcome |-> "none", path |-> "none", embed_calls |-> 0]

\* the engine state after one result r of _extract_doc_metadata
WithExtraction(e, r, reextract) ==
    [e EXCEPT !.doc_metadata = r.doc_metadata, !.disk = r.disk,
              !.parent_nodes = r.parent_nodes, !.log = r.log,
              !.meta_call = [@ EXCEPT !.reextract = reextract,
                                      !.outcome = r.outcome, !.path = r.path]]

\* the rebuild once _extract_doc_metadata has returned (lines 711-740) over
\* the segments nodes, e1 being the engine with the extraction applied;
\* VectorStoreIndex(nodes) may fail
RebuildIndexes(e1, parents, nodes, build_keyword_index) ==
    UNION {
      LET e2  == [e1 EXCEPT !.parent_text_map = map, !.enhanced_nodes = nodes,
                            !.embed_calls = @ + 1]
          st1 == [e1.storage EXCEPT !.dir = TRUE, !.vector = [nodes |-> nodes]]
          st2 == IF build_keyword_index THEN PersistKeywordIndex(st1, kwi) ELSE st1
      IN  {[e2 EXCEPT !.outcome = "raised"],
           [e2 EXCEPT !.vector_index = [nodes |-> nodes],
                      !.keyword_index = kwi,
                      !.storage = PersistParentMap(st2, map),
                      !.outcome = "returned"]}
      : map \in {ParentTextMap(parents)},
        kwi \in {IF build_keyword_index
                 THEN KeywordIndexer(nodes, DefaultTokenPattern, TRUE)
                 ELSE e1.keyword_index} }

\* the rebuild (lines 697-740): the states it can leave; load_documents raises
\* on an empty data directory
Rebuild(e, docs, build_keyword_index, reextract, chunk_chars, embed_chars) ==
    LET path == IF e.path = "load" THEN "fallback" ELSE "rebuild"
    IN  IF docs = <<>> THEN {[e EXCEPT !.outcome = "raised", !.path = path]}
        ELSE UNION {
          UNION {
            IF r.outcome = "raised" THEN {[e1 EXCEPT !.outcome = "raised"]}
            ELSE UNION {RebuildIndexes(e1, r.parent_nodes, nodes, build_keyword_index)
                        : nodes \in {SplitAll(r.parent_nodes, 1, chunk_chars, embed_chars)}}
            : e1 \in {[WithExtraction(e, r, reextract) EXCEPT !.path = path]} }
          : r \in ExtractDocMetadata(BuildParentNodes(docs), reextract,
                                     e.doc_metadata, e.disk) }

\* a load path that keeps the keyword index the engine already holds
LoadKeywordIndexKept(e2, nodes, build_keyword_index) ==
    {[e2 EXCEPT !.enhanced_nodes = nodes,
                !.keyword_index = IF @ = None
                                  THEN KeywordIndexer(nodes, DefaultTokenPattern, TRUE)
                                  ELSE @,
                !.outcome = "returned"]}

\* the try block once _extract_doc_metadata has returned (lines 667-692), e2
\* being the engine with the extraction applied
LoadKeywordIndex(e2, nodes, build_keyword_index) ==
    LET kw_file == e2.storage.kw_file
    IN  UNION {
          {[e2 EXCEPT !.enhanced_nodes = nodes,
                      !.keyword_index = kwi,
                      !.storage = IF build_keyword_index /\ kw_file = None
                                  THEN PersistKeywordIndex(@, kwi) ELSE @,
                      !.outcome = "returned"]}
          : kwi \in {IF ~build_keyword_index THEN e2.keyword_index
                     ELSE IF kw_file # None
                     THEN FromDisk(kw_file, nodes)
                     ELSE KeywordIndexer(nodes, DefaultTokenPattern, TRUE)} }

\* the try block once load_index_from_storage has returned (lines 661-692);
\* whatever raises inside it is caught and the rebuild follows
AfterLoad(e, docs, build_keyword_index, reextract, chunk_chars, embed_chars) ==
    UNION {
      IF docs = <<>>
      THEN Rebuild(e0, docs, build_keyword_index, reextract, chunk_chars, embed_chars)
      ELSE UNION {
             UNION {
               UNION {
                 IF r.outcome = "raised"
                 THEN Rebuild(e2, docs, build_keyword_index, reextract,
                              chunk_chars, embed_chars)
                 ELSE UNION {LoadKeywordIndex(e2, nodes, build_keyword_index)
                             : nodes \in {SplitAll(r.parent_nodes, 1, chunk_chars, embed_chars)}}
                 : e2 \in {WithExtraction([e0 EXCEPT !.parent_text_map = ParentTextMap(parents)],
                                          r, reextract)} }
               : r \in ExtractDocMetadata(parents, reextract, e.doc_metadata, e.disk) }
             : parents \in {BuildParentNodes(docs)} }
      : e0 \in {[e EXCEPT !.vector_index = e.storage.vector, !.path = "load"]} }

\* create_index(force_rebuild, build_keyword_index, reextract_doc_meta): the
\* states it can leave; load_index_from_storage fails when no index was
\* persisted and may fail otherwise
CreateIndexOutcomes(e, docs, force_rebuild, build_keyword_index, reextract, chunk_chars, embed_chars) ==
    IF ~force_rebuild /\ PersistDirExists(e.storage, e.disk)
    THEN (IF e.storage.vector = None THEN {}
          ELSE AfterLoad(e, docs, build_keyword_index, reextract, chunk_chars, embed_chars))
         \cup UNION {Rebuild(e0, docs, build_keyword_index, reextract, chunk_chars, embed_chars)
                     : e0 \in {[e EXCEPT !.path = "load"]}}
    ELSE Rebuild(e, docs, build_keyword_index, reextract, chunk_chars, embed_chars)

\* the assignment of an engine state to the variables
Becomes(e) ==
    /\ vector_index' = e.vector_index
    /\ keyword_index' = e.keyword_index
    /\ parent_text_map' = e.parent_text_map
    /\ storage' = e.storage
    /\ doc_metadata' = e.doc_metadata
    /\ disk_doc_metadata' = e.disk
    /\ parent_nodes' = e.parent_nodes
    /\ enhanced_nodes' = e.enhanced_nodes
    /\ llm_log' = e.log
    /\ meta_call' = e.meta_call

\* a call of create_index with reextract_doc_meta drawn from reextracts
CreateIndexWith(reextracts) ==
    /\ ret.outcome = "none"
    /\ \E force_rebuild \in BOOLEAN, build_keyword_index \in BOOLEAN, reextract \in reextracts :
         \E e0 \in {EngineState} :
         \E e \in CreateIndexOutcomes(e0, documents, force_rebuild,
                                      build_keyword_index, reextract,
                                      paragraph_chunk_chars, max_embed_chars) :
            /\ Becomes(e)
            /\ index_call' = [force_rebuild |-> force_rebuild,
                              build_keyword_index |-> build_keyword_index,
                              outcome |-> e.outcome, path |-> e.path,
                              embed_calls |-> e.embed_calls,
                              documents |-> documents]
    /\ UNCHANGED <<documents, pc, configVars, chunkVars, retrVars>>

\* a call of create_index
CreateIndex == CreateIndexWith(BOOLEAN)

-----------------------------------------------------------------------------
(* Calls of dual_retrieve_hits *)

\* the longest answer of the dense retriever the model draws
MaxVecHits == 2

\* scores the dense retriever attaches: none, a negative and a positive cosine
DenseScores == {None, Num(-500), Num(900)}

\* raw scores of the BM25 object
RawScores == {0, 1, 2}

\* the call passes the two guards of dual_retrieve_hits (lines 771-774)
PassesGuards(args) ==
    vector_index # None /\ ~(args.use_keyword /\ keyword_index = None)

\* what the dense retriever can answer when it is asked: nodes of the index,
\* in any order, a node possibly more than once
DenseAnswers(args) ==
    IF ~PassesGuards(args) THEN {<<>>}
    ELSE SeqsUpTo({[node |-> vector_index.nodes[k], score |-> sc] :
                      k \in 1..Len(vector_index.nodes), sc \in DenseScores},
                  MaxVecHits)

\* what self.bm25.get_scores can answer when it is asked: one raw score per
\* indexed document
Bm25Scores(args) ==
    IF /\ PassesGuards(args)
       /\ args.use_keyword /\ args.top_k_keyword > 0
       /\ keyword_index.node_ids # <<>>
       /\ TokenizeText(keyword_index.token_pattern, args.question) # <<>>
    THEN [1..Len(keyword_index.node_ids) -> RawScores]
    ELSE {<<>>}

\* the defaults of dual_retrieve_hits, weights in hundredths
DefaultArgs ==
    [question |-> <<"a", "b">>, top_k_vector |-> 20, top_k_keyword |-> 20,
     merge_top_k |-> 5, alpha |-> 85, beta |-> 15, use_keyword |-> TRUE]

\* the argument lists of the calls: the defaults, and the defaults with one
\* argument overridden
RetrieveArgs ==
    {DefaultArgs}
    \cup {[DefaultArgs EXCEPT !.question = <<"?">>]}
    \cup {[DefaultArgs EXCEPT !.top_k_keyword = k] : k \in {0, 1}}
    \cup {[DefaultArgs EXCEPT !.merge_top_k = k] : k \in {-1, 0, 1, 2}}
    \cup {[DefaultArgs EXCEPT !.alpha = w[1], !.beta = w[2]] :
             w \in {<<100, 0>>, <<0, 100>>, <<100, -100>>}}
    \cup {[DefaultArgs EXCEPT !.use_keyword = FALSE]}

\* the node objects of self.keyword_index.node_lookup after the call: the
\* hits that did not come from the dense retriever carry the lookup's own
\* node, which _enrich_node_metadata changes in place
LookupAfter(kwi, r, meta) ==
    IF kwi = None \/ r.outcome # "returned" THEN kwi
    ELSE LET dense == {r.vec_nodes[k].node.node_id : k \in 1..Len(r.vec_nodes)}
             own   == {r.merged[k].node.node_id : k \in 1..Len(r.merged)} \ dense
         IN  [kwi EXCEPT !.node_lookup =
                 [id \in DOMAIN @ |-> IF id \in own
                                      THEN EnrichNodeMetadata(@[id], meta) ELSE @[id]]]

\* the call dual_retrieve_hits(args) answered by the collaborators
Retrieve(args, vec_nodes, scores) ==
    LET r == DualRetrieveHits(vector_index, keyword_index, doc_metadata,
                              args, vec_nodes, scores)
    IN  /\ ret' = r
        /\ keyword_index' = LookupAfter(keyword_index, r, doc_metadata)

\* a call of dual_retrieve_hits
CallDualRetrieveHits ==
    /\ ret.outcome = "none"
    /\ \E args \in RetrieveArgs :
          \E vec_nodes \in DenseAnswers(args), scores \in Bm25Scores(args) :
             Retrieve(args, vec_nodes, scores)
    /\ prev_ret' = NoRetrieval
    /\ UNCHANGED <<vector_index, parent_text_map, storage, index_call, kw_call,
                   configVars, pipeVars, chunkVars, metaVars>>

\* the same call of dual_retrieve_hits again, one collaborator having raised
\* the score of one of its answers
RepeatDualRetrieveHits ==
    /\ ret.outcome = "returned"
    /\ prev_ret.outcome = "none"
    /\ \/ \E k \in 1..Len(ret.vec_nodes) :
             /\ ret.vec_nodes[k].score # None
             /\ Retrieve(ret.args,
                         [ret.vec_nodes EXCEPT ![k].score = Num(@.v + 100)],
                         ret.bm25_scores)
       \/ \E k \in 1..Len(ret.bm25_scores) :
             Retrieve(ret.args, ret.vec_nodes, [ret.bm25_scores EXCEPT ![k] = @ + 1])
    /\ prev_ret' = ret
    /\ UNCHANGED <<vector_index, parent_text_map, storage, index_call, kw_call,
                   configVars, pipeVars, chunkVars, metaVars>>

\* dual_retrieve_hits returns or raises: the caller has the result
ReturnHits ==
    /\ ret.outcome # "none"
    /\ ret' = NoRetrieval
    /\ prev_ret' = NoRetrieval
    /\ UNCHANGED <<kw_call, configVars, pipeVars, chunkVars, metaVars, indexVars>>

\* the data directory of the engine: empty, or one document of one segment
EngineCorpora == {<<>>, <<Doc(<<"a">>, <<"d">>)>>}

InitEngine ==
    /\ DefaultConfig
    /\ documents \in EngineCorpora
    /\ parent_nodes = <<>>
    /\ enhanced_nodes = <<>>
    /\ pc = "idle"
    /\ IdleChunk
    /\ IdleMeta
    /\ IdleIndex
    /\ IdleRetrieval

NextEngine == CreateIndex \/ CallDualRetrieveHits \/ ReturnHits

SpecEngine == InitEngine /\ [][NextEngine]_vars

-----------------------------------------------------------------------------
(* One engine whose data directory changes between calls of create_index *)

\* the data directory: empty, or one document of one segment, with a token
\* or without one
ReindexCorpora ==
    {<<>>,
     <<Doc(<<"a", "b">>, <<"d">>)>>,
     <<Doc(<<"?">>, <<"d">>)>>}

InitReindex ==
    /\ DefaultConfig
    /\ documents \in ReindexCorpora
    /\ parent_nodes = <<>>
    /\ enhanced_nodes = <<>>
    /\ pc = "idle"
    /\ IdleChunk
    /\ IdleMeta
    /\ IdleIndex
    /\ IdleRetrieval

\* files are added to or removed from data_dir: what load_documents will
\* return changes
ChangeCorpus ==
    /\ ret.outcome = "none"
    /\ documents' \in ReindexCorpora \ {documents}
    /\ UNCHANGED <<parent_nodes, enhanced_nodes, pc, configVars, chunkVars, metaVars,
                   indexVars, retrVars>>

\* a call of dual_retrieve_hits with the default arguments, or without
\* keyword retrieval, on an engine whose create_index has been called
CallDualRetrieveAfterIndex ==
    /\ ret.outcome = "none"
    /\ index_call.outcome # "none"
    /\ \E args \in {DefaultArgs, [DefaultArgs EXCEPT !.use_keyword = FALSE]} :
          \E vec_nodes \in DenseAnswers(args), scores \in Bm25Scores(args) :
             Retrieve(args, vec_nodes, scores)
    /\ prev_ret' = NoRetrieval
    /\ UNCHANGED <<vector_index, parent_text_map, storage, index_call, kw_call,
                   configVars, pipeVars, chunkVars, metaVars>>

\* a call of create_index that leaves reextract_doc_meta at its default
CreateIndexKeepMeta == CreateIndexWith({FALSE})

NextReindex == CreateIndexKeepMeta \/ ChangeCorpus \/ CallDualRetrieveAfterIndex \/ ReturnHits

SpecReindex == InitReindex /\ [][NextReindex]_vars

\* the engine as a first create_index(force_rebuild=True) leaves it
FreshEngine ==
    [vector_index |-> None, keyword_index |-> None,
     parent_text_map |-> <<>>, storage |-> NoStorage,
     doc_metadata |-> <<>>, disk |-> [exists |-> FALSE, data |-> <<>>],
     parent_nodes |-> <<>>, enhanced_nodes |-> <<>>,
     log |-> <<>>, meta_call |-> NoCall,
     outcome |-> "none", path |-> "none", embed_calls |-> 0]

BuiltEngines(docs) ==
    {e \in CreateIndexOutcomes(FreshEngine, docs, TRUE, TRUE, FALSE, 1200, 6000) :
        e.outcome = "returned"}

InitBuilt(docs) ==
    /\ DefaultConfig
    /\ documents = docs
    /\ pc = "idle"
    /\ IdleChunk
    /\ IdleRetrieval
    /\ \E e \in BuiltEngines(docs) :
          /\ vector_index = e.vector_index
          /\ keyword_index = e.keyword_index
          /\ parent_text_map = e.parent_text_map
          /\ storage = e.storage
          /\ doc_metadata = e.doc_metadata
          /\ disk_doc_metadata = e.disk
          /\ parent_nodes = e.parent_nodes
          /\ enhanced_nodes = e.enhanced_nodes
          /\ llm_log = e.log
          /\ meta_call = e.meta_call
          /\ index_call = [force_rebuild |-> TRUE, build_keyword_index |-> TRUE,
                           outcome |-> e.outcome, path |-> e.path,
                           embed_calls |-> e.embed_calls,
                           documents |-> docs]

\* one document of three segments, the second without a token
RetrieveCorpus ==
    <<Doc(<<"a", "b", "\n", "\n", "b", "\n", "\n", "c", "d">>, <<"d">>)>>

InitRetrieve == InitBuilt(RetrieveCorpus)

NextRetrieve == CallDualRetrieveHits \/ ReturnHits

SpecRetrieve == InitRetrieve /\ [][NextRetrieve]_vars

\* one document of two segments, the second without a token
FusionCorpus == <<Doc(<<"a", "b", "\n", "\n", "b">>, <<"d">>)>>

InitFusion == InitBuilt(FusionCorpus)

NextFusion == CallDualRetrieveHits \/ RepeatDualRetrieveHits \/ ReturnHits

SpecFusion == InitFusion /\ [][NextFusion]_vars

-----------------------------------------------------------------------------
(* The keyword indexer on its own: built over a segment set, serialized,
   reconstructed, and queried *)

\* the largest segment set the indexer is built over
MaxKwNodes == 2

\* a pattern other than the default one: r"[a-zA-Z]+"
LetterRunPattern == [class |-> AlphaChars, minlen |-> 1]

TokenPatterns == {DefaultTokenPattern, LetterRunPattern}

\* texts of segments: one with a token of the default pattern, one without
KwTexts == {<<"a", "b">>, <<"b">>}

\* section headers of segments: none, or one with a token
KwHeaders == {<<>>, <<"c", "d">>}

\* a child segment as the indexer reads it: id, text, section_header
KwSegment(k, text, header) ==
    [node_id |-> <<"s">> \o IntToStr(k), text |-> text, section_header |-> header]

\* the segment sets: lists of segments with ids s1, s2, ...
KwSegmentSets ==
    UNION {{[k \in 1..n |-> KwSegment(k, c[k][1], c[k][2])] :
               c \in [1..n -> KwTexts \X KwHeaders]} : n \in 0..MaxKwNodes}

\* queries: one with a token of every pattern, one without a token of the
\* default and the fallback pattern
KwQueries == {<<"a", "b">>, <<"b">>}

\* values of top_k; dual_retrieve_hits calls retrieve with top_k > 0 only
KwTopKs == {0, 1, 2}

\* raw scores of the BM25 object
KwRawScores == {-1, 0, 1, 2}

InitKeyword ==
    /\ DefaultConfig
    /\ documents = <<>>
    /\ parent_nodes = <<>>
    /\ enhanced_nodes \in KwSegmentSets
    /\ pc = "segments"
    /\ IdleChunk
    /\ IdleMeta
    /\ IdleIndex
    /\ IdleRetrieval

\* keyword_index = BM25KeywordIndexer(nodes, token_pattern, boost_header)
BuildKeywordIndexer ==
    /\ pc = "segments"
    /\ \E token_pattern \in TokenPatterns, boost_header \in BOOLEAN :
          keyword_index' = KeywordIndexer(enhanced_nodes, token_pattern, boost_header)
    /\ pc' = "indexed"
    /\ UNCHANGED <<documents, parent_nodes, enhanced_nodes, vector_index, parent_text_map,
                   storage, index_call, configVars, chunkVars, metaVars, retrVars>>

\* _persist_keyword_index()
PersistIndexer ==
    /\ pc = "indexed"
    /\ kw_call.outcome = "none"
    /\ storage' = PersistKeywordIndex(storage, keyword_index)
    /\ pc' = "persisted"
    /\ UNCHANGED <<documents, parent_nodes, enhanced_nodes, vector_index, keyword_index,
                   parent_text_map, index_call, configVars, chunkVars, metaVars, retrVars>>

\* keyword_index = BM25KeywordIndexer.from_disk(kw_data, nodes) over the same
\* segment set
RestoreIndexer ==
    /\ pc = "persisted"
    /\ kw_call.outcome = "none"
    /\ keyword_index' = FromDisk(storage.kw_file, enhanced_nodes)
    /\ pc' = "restored"
    /\ UNCHANGED <<documents, parent_nodes, enhanced_nodes, vector_index, parent_text_map,
                   storage, index_call, configVars, chunkVars, metaVars, retrVars>>

\* retrieve asks the BM25 object for scores
AsksBm25(kwi, query) ==
    kwi.node_ids # <<>> /\ TokenizeText(kwi.token_pattern, query) # <<>>

\* a call keyword_index.retrieve(query, top_k); scores is what the BM25
\* object answers if it is asked
CallKeywordRetrieve ==
    /\ pc \in {"indexed", "persisted", "restored"}
    /\ kw_call.outcome = "none"
    /\ \E query \in KwQueries, top_k \in KwTopKs :
          \E scores \in [1..Len(keyword_index.node_ids) -> KwRawScores] :
             kw_call' = [outcome |-> "returned", query |-> query, top_k |-> top_k,
                         scores |-> IF AsksBm25(keyword_index, query) THEN scores ELSE <<>>,
                         hits |-> KeywordRetrieve(keyword_index, query, top_k, scores)]
    /\ UNCHANGED <<ret, prev_ret, configVars, pipeVars, chunkVars, metaVars, indexVars>>

\* retrieve returns: the caller has the hits
ReturnKeywordHits ==
    /\ kw_call.outcome # "none"
    /\ kw_call' = NoKeywordCall
    /\ UNCHANGED <<ret, prev_ret, configVars, pipeVars, chunkVars, metaVars, indexVars>>

NextKeyword ==
    \/ BuildKeywordIndexer
    \/ PersistIndexer
    \/ RestoreIndexer
    \/ CallKeywordRetrieve
    \/ ReturnKeywordHits

SpecKeyword == InitKeyword /\ [][NextKeyword]_vars

-----------------------------------------------------------------------------
(* C1 *)

\* the texts of the parent blocks of document ix, in emission order
ParentTextsOf(ix) ==
    LET idx == {k \in 1..Len(parent_nodes) : parent_nodes[k].src_doc = ix}
    IN  [j \in 1..Cardinality(idx) |->
            parent_nodes[CHOOSE k \in idx : Cardinality({m \in idx : m <= k}) = j].text]

\* C1 as stated: for every document, the concatenation of its parent blocks'
\* texts in emission order is exactly the line-ending-normalized source text.
C1_ExactPartition ==
    pc = "parents" =>
        \A ix \in 1..Len(documents) :
            Concat(ParentTextsOf(ix)) = NormalizeNewlines(documents[ix].text)

RECURSIVE CoversFrom(_, _, _)
\* the blocks occur verbatim in the text from pos on, in order, with nothing
\* but whitespace before, between and after them
CoversFrom(text, blocks, pos) ==
    LET p == LSkip(text, pos)
    IN  IF blocks = <<>> THEN p > Len(text)
        ELSE /\ Slice(text, p, p + Len(Head(blocks)) - 1) = Head(blocks)
             /\ CoversFrom(text, Tail(blocks), p + Len(Head(blocks)))

\* C1 amended: for every document, its parent blocks are, in emission order,
\* disjoint contiguous pieces of the normalized source text, and the
\* characters of the source that are in no block are whitespace only (before
\* the first block, between two blocks, after the last one).
C1_PartitionUpToTrim ==
    pc = "parents" =>
        \A ix \in 1..Len(documents) :
            CoversFrom(NormalizeNewlines(documents[ix].text), ParentTextsOf(ix), 1)

\* a document with a preface and two heading blocks whose blocks lost whitespace
C1_Witness ==
    /\ pc = "parents"
    /\ \E ix \in 1..Len(documents) :
          /\ Len(ParentTextsOf(ix)) >= 3
          /\ Concat(ParentTextsOf(ix)) # NormalizeNewlines(documents[ix].text)

-----------------------------------------------------------------------------
(* C2 *)

\* C2: when a call of _extract_doc_metadata that returned is followed by a
\* call on the same parent blocks with reextract = False, the second call
\* issues no completion call and leaves doc_metadata as the first call left
\* it; and any call with reextract = False that finds a non-empty persisted
\* cache issues no completion call and takes doc_metadata from the cache.
C2_IdempotentCached ==
    [][ /\ ( /\ pc = "extracted" /\ pc' = "extracted"
             /\ meta_call.outcome = "returned"
             /\ meta_call'.run_no = meta_call.run_no + 1
             /\ ~meta_call'.reextract )
           => ( /\ llm_log' = <<>>
                /\ doc_metadata' = doc_metadata
                /\ meta_call'.outcome = "returned" )
        /\ ( /\ pc' = "extracted"
             /\ meta_call'.run_no = meta_call.run_no + 1
             /\ ~meta_call'.reextract
             /\ LoadDocMetadata(disk_doc_metadata) # <<>> )
           => ( /\ llm_log' = <<>>
                /\ doc_metadata' = LoadDocMetadata(disk_doc_metadata) )
      ]_vars

\* a second, unforced call that made no completion call although the metadata
\* it leaves holds authors, which only a completion reply provides
C2_Witness ==
    /\ pc = "extracted"
    /\ meta_call.run_no = 2
    /\ ~meta_call.reextract
    /\ meta_call.path = "cache"
    /\ llm_log = <<>>
    /\ \E d \in DOMAIN doc_metadata : doc_metadata[d].authors # <<>>

-----------------------------------------------------------------------------
(* C3 *)

\* the segment ids of a list of hits or of scored nodes
IdsOf(list) == {list[k].node.node_id : k \in 1..Len(list)}

\* the dense scores the call saw for the segment
DenseSeen(r, id) ==
    {r.vec_nodes[k].score.v :
        k \in {j \in 1..Len(r.vec_nodes) :
                  r.vec_nodes[j].node.node_id = id /\ r.vec_nodes[j].score # None}}

\* the keyword hits the call saw for the segment
KeywordSeen(r, id) ==
    {r.kw_nodes[k] : k \in {j \in 1..Len(r.kw_nodes) : r.kw_nodes[j].node.node_id = id}}

\* C3 as stated: every segment id of the dense or keyword results has at most
\* one merged hit, whose vec_score is the maximum dense score seen for the
\* segment and whose kw_score and kw_raw are the maximum keyword scores seen
\* for it.
C3_MergeByMax ==
    ret.outcome = "returned" =>
        \A id \in IdsOf(ret.vec_nodes) \cup IdsOf(ret.kw_nodes) :
            /\ Cardinality({k \in 1..Len(ret.merged) : ret.merged[k].node.node_id = id}) <= 1
            /\ \A k \in 1..Len(ret.merged) :
                  ret.merged[k].node.node_id = id =>
                     /\ DenseSeen(ret, id) # {} =>
                           ret.merged[k].vec_score = Max(DenseSeen(ret, id))
                     /\ KeywordSeen(ret, id) # {} =>
                           /\ ret.merged[k].kw_score =
                                 Max({h.kw_score : h \in KeywordSeen(ret, id)})
                           /\ ret.merged[k].kw_raw =
                                 Max({h.kw_raw : h \in KeywordSeen(ret, id)})

-----------------------------------------------------------------------------
(* C4 *)

\* C4: a call of dual_retrieve_hits made while the dense index is missing, or
\* made with use_keyword while the keyword index is missing, raises, invokes
\* neither the dense retriever nor the keyword indexer, and returns no hits.
C4_PreconditionErrors ==
    (/\ ret.outcome # "none"
     /\ \/ vector_index = None
        \/ ret.args.use_keyword /\ keyword_index = None) =>
        /\ ret.outcome = "raised"
        /\ ret.dense_calls = 0
        /\ ret.kw_calls = 0
        /\ ret.hits = <<>>

\* a call asking for keyword retrieval on an engine that create_index left
\* with a dense index and no keyword index
C4_Witness ==
    /\ ret.outcome = "raised"
    /\ ret.args.use_keyword
    /\ vector_index # None
    /\ keyword_index = None
    /\ index_call.outcome = "returned"

-----------------------------------------------------------------------------
(* C5 *)

\* C5: for merge_top_k >= 0 the returned hits are in non-increasing order of
\* fused score, there are min(merge_top_k, number of merged segments) of them,
\* and no merged hit that was left out has a greater fused score than a
\* returned hit.
C5_RankedTruncated ==
    (ret.outcome = "returned" /\ ret.args.merge_top_k >= 0) =>
        /\ \A i \in 1..(Len(ret.hits) - 1) : ret.hits[i].score >= ret.hits[i + 1].score
        /\ Len(ret.hits) = Min({ret.args.merge_top_k, Len(ret.merged)})
        /\ \A i \in 1..Len(ret.hits) : \E k \in 1..Len(ret.merged) : ret.hits[i] = ret.merged[k]
        /\ \A k \in 1..Len(ret.merged) :
              ret.merged[k].node.node_id \notin IdsOf(ret.hits) =>
                 \A i \in 1..Len(ret.hits) : ret.merged[k].score <= ret.hits[i].score

\* three merged segments that were not in ranking order, cut to the best two
C5_Witness ==
    /\ ret.outcome = "returned"
    /\ ret.args.merge_top_k = 2
    /\ Len(ret.merged) = 3
    /\ Len(ret.hits) = 2
    /\ ret.merged[1].score < ret.merged[3].score
    /\ ret.hits[1].score > ret.hits[2].score
    /\ \E k \in 1..3 : /\ ret.merged[k].node.node_id \notin IdsOf(ret.hits)
                       /\ ret.merged[k].score < ret.hits[2].score

-----------------------------------------------------------------------------
(* C6 *)

\* the merged hits of the two calls are the same segments in the same order
SameSegments(p, r) ==
    /\ Len(p.merged) = Len(r.merged)
    /\ \A k \in 1..Len(p.merged) : p.merged[k].node.node_id = r.merged[k].node.node_id

\* between the two calls only hit k changed its component scores, upwards
OnlyRaised(p, r, k) ==
    /\ r.merged[k].vec_score >= p.merged[k].vec_score
    /\ r.merged[k].kw_score >= p.merged[k].kw_score
    /\ \A j \in 1..Len(p.merged) :
          j # k => /\ r.merged[j].vec_score = p.merged[j].vec_score
                   /\ r.merged[j].kw_score = p.merged[j].kw_score

\* C6: of two calls with the same alpha >= 0 and beta >= 0 whose merged hits
\* differ only in one hit's vec_score or kw_score, raised in the second call,
\* the second gives that hit a fused score no lower than the first and every
\* other hit the same fused score.
C6_FusionMonotone ==
    (/\ prev_ret.outcome = "returned" /\ ret.outcome = "returned"
     /\ ret.args.alpha = prev_ret.args.alpha /\ ret.args.beta = prev_ret.args.beta
     /\ ret.args.alpha >= 0 /\ ret.args.beta >= 0
     /\ SameSegments(prev_ret, ret)) =>
        \A k \in 1..Len(ret.merged) :
            OnlyRaised(prev_ret, ret, k) =>
               /\ ret.merged[k].score >= prev_ret.merged[k].score
               /\ \A j \in 1..Len(ret.merged) :
                     j # k => ret.merged[j].score = prev_ret.merged[j].score

\* a repeated call in which the keyword score of one of two merged hits rose,
\* and with it the hit's fused score
C6_Witness ==
    /\ prev_ret.outcome = "returned" /\ ret.outcome = "returned"
    /\ ret.args.alpha > 0 /\ ret.args.beta > 0
    /\ SameSegments(prev_ret, ret)
    /\ Len(ret.merged) = 2
    /\ \E k \in 1..2 :
          /\ OnlyRaised(prev_ret, ret, k)
          /\ ret.merged[k].kw_score > prev_ret.merged[k].kw_score
          /\ ret.merged[k].score > prev_ret.merged[k].score

-----------------------------------------------------------------------------
(* C7 *)

\* positions in enhanced_nodes of the children of the parent with the given id
ChildrenOf(id) == {k \in 1..Len(enhanced_nodes) : enhanced_nodes[k].parent_node_id = id}

\* C7: for every parent block, the section_segment_index values of its child
\* segments, in emission order, are exactly 1, 2, ..., n.
C7_SegmentIndexContiguous ==
    pc = "segments" =>
        \A p \in 1..Len(parent_nodes) :
            LET idx == ChildrenOf(parent_nodes[p].node_id)
            IN  \A k \in idx :
                    enhanced_nodes[k].section_segment_index
                        = Cardinality({m \in idx : m <= k})

\* a parent whose children are a text segment, a table and the two chunks of
\* one paragraph, in some interleaving that has the table before the chunks
C7_Witness ==
    /\ pc = "segments"
    /\ \E a, b, c \in 1..Len(enhanced_nodes) :
          /\ a < b /\ b < c
          /\ enhanced_nodes[a].parent_node_id = enhanced_nodes[c].parent_node_id
          /\ enhanced_nodes[b].parent_node_id = enhanced_nodes[c].parent_node_id
          /\ ~enhanced_nodes[a].is_table
          /\ enhanced_nodes[b].is_table
          /\ enhanced_nodes[c].section_paragraph_chunk = 2

-----------------------------------------------------------------------------
(* C8 *)

\* the limit _chunk_paragraph works with
EffectiveLimit ==
    IF paragraph_chunk_chars > MinChunkChars THEN paragraph_chunk_chars ELSE MinChunkChars

RECURSIVE JoinSpace(_)
\* " ".join(sentences)
JoinSpace(ss) ==
    IF ss = <<>> THEN <<>>
    ELSE IF Len(ss) = 1 THEN ss[1]
    ELSE ss[1] \o <<" ">> \o JoinSpace(Tail(ss))

\* the sentences each returned chunk is made of
ChunkSentences == [c \in 1..Len(ret_chunks) |-> Sentences(ret_chunks[c])]

\* C8: every sub-chunk is a run of whole consecutive sentences of the
\* paragraph (the chunks' sentences, read in order, are the paragraph's
\* sentences, each once, and a chunk is its sentences joined by one space),
\* and a sentence longer than the limit is a sub-chunk of its own.
C8_SentenceIntegrity ==
    chunked =>
        /\ Concat(ChunkSentences) = Sentences(arg_paragraph)
        /\ \A c \in 1..Len(ret_chunks) :
              /\ ChunkSentences[c] # <<>>
              /\ ret_chunks[c] = JoinSpace(ChunkSentences[c])
              /\ (\E k \in 1..Len(ChunkSentences[c]) :
                      Len(ChunkSentences[c][k]) > EffectiveLimit)
                    => Len(ChunkSentences[c]) = 1

\* a chunk of two sentences followed by a chunk that is one over-long sentence
C8_Witness ==
    /\ chunked
    /\ Len(ret_chunks) >= 2
    /\ Len(ChunkSentences[1]) >= 2
    /\ \E c \in 1..Len(ret_chunks) : Len(ret_chunks[c]) > EffectiveLimit

-----------------------------------------------------------------------------
(* C9 *)

\* C9 as stated: every child segment's section_header equals the
\* section_header of the parent block it was split from.
C9_HeaderInherited ==
    pc = "segments" =>
        \A k \in 1..Len(enhanced_nodes) :
            \A p \in 1..Len(parent_nodes) :
                parent_nodes[p].node_id = enhanced_nodes[k].parent_node_id
                    => enhanced_nodes[k].section_header = parent_nodes[p].section_header

-----------------------------------------------------------------------------
(* C10 *)

-----------------------------------------------------------------------------
(* C11 *)

\* the node carries the title, DOI and authors of the record
CarriesRecord(node, rec) ==
    /\ {"doc_title"} \cup DocMetaKeys \subseteq DOMAIN node
    /\ node.doc_title = rec.title
    /\ node.doc_doi = rec.doi
    /\ node.doc_authors = rec.authors

\* C11 as stated: every hit dual_retrieve_hits returns whose doc_id has a
\* DocMetadata record carries doc_title, doc_doi and doc_authors equal to that
\* record, also when the hit's segment already held older values.
C11_HitsCarryRecord ==
    ret.outcome = "returned" =>
        \A k \in 1..Len(ret.hits) :
            LET node == ret.hits[k].node
            IN  MetaGet(node, "doc_id") \in DOMAIN doc_metadata =>
                    CarriesRecord(node, doc_metadata[node.doc_id])

-----------------------------------------------------------------------------
(* C12 *)

\* position in parent_nodes of the parent the k-th completion call was made for
LogPos(k) == Min({p \in 1..Len(parent_nodes) : parent_nodes[p].node_id = llm_log[k].node_id})

\* C12 as stated: during a fresh extraction the completion calls of a document
\* are made for parents in document order, at most one per parent, and none
\* is made once both a DOI and a non-empty author list are known for the
\* document.
C12_BoundedExtraction ==
    (pc = "extracted" /\ meta_call.path = "fresh") =>
        /\ \A i, j \in 1..Len(llm_log) :
              (i < j /\ llm_log[i].doc_id = llm_log[j].doc_id) => LogPos(i) < LogPos(j)
        /\ \A k \in 1..Len(llm_log) :
              ~(llm_log[k].doi_known /\ ~llm_log[k].need_authors)

-----------------------------------------------------------------------------
(* C13 *)

\* positions in parent_nodes of the parents of the document behind position p
LaterParents(p) ==
    {q \in (p + 1)..Len(parent_nodes) : parent_nodes[q].doc_id = parent_nodes[p].doc_id}

\* what a failed or malformed reply to the k-th completion call does to the
\* loop's DOI and authors
AfterFailure(k, kind) ==
    AfterReply(kind, llm_log[k].need_doi, llm_log[k].need_authors,
               llm_log[k].doi, llm_log[k].authors)

\* C13 as stated: a fresh extraction never raises; at every completion call
\* it makes, a failed call or a reply that is not of the expected shape leaves
\* the DOI and the authors as they were and raises nothing; and a call that
\* found no field is followed by the call for the document's next parent, if
\* it has one and a field is still missing.
C13_FailuresNotFatal ==
    (pc = "extracted" /\ meta_call.path = "fresh") =>
        /\ meta_call.outcome = "returned"
        /\ \A k \in 1..Len(llm_log) :
              /\ \A kind \in FailedReplies :
                    /\ ~AfterFailure(k, kind).raised
                    /\ AfterFailure(k, kind).doi = llm_log[k].doi
                    /\ AfterFailure(k, kind).authors = llm_log[k].authors
              /\ (/\ ~llm_log[k].found
                  /\ LaterParents(LogPos(k)) # {}
                  /\ ~(Truthy(llm_log[k].doi) /\ llm_log[k].authors # <<>>)) =>
                    /\ k + 1 <= Len(llm_log)
                    /\ LogPos(k + 1) = Min(LaterParents(LogPos(k)))

-----------------------------------------------------------------------------
(* C14 *)

\* C14 as stated: when a step fails while create_index is loading an existing
\* index, the failure reaches the caller of create_index, and that call
\* makes no embedding run and no completion call after it.
C14_LoadFailureSurfaced ==
    index_call.path = "fallback" =>
        /\ index_call.outcome = "raised"
        /\ index_call.embed_calls = 0
        /\ llm_log = <<>>

-----------------------------------------------------------------------------
(* C15 *)

\* C15 as stated: an indexer that was serialized by _persist_keyword_index and
\* reconstructed by from_disk over the same segment set has the node_ids and
\* the per-segment token lists that were serialized, whatever the tokenizer
\* pattern and the header-boost setting it was built with.
C15_RoundTrip ==
    pc = "restored" =>
        /\ keyword_index.node_ids = storage.kw_file.node_ids
        /\ keyword_index.tokenized_docs = storage.kw_file.tokenized_docs

-----------------------------------------------------------------------------
(* C16 *)

\* the positions of the index whose segment is not among the hits
OutsideResult(hits) ==
    {k \in 1..Len(keyword_index.node_ids) :
        \A i \in 1..Len(hits) : hits[i].node.node_id # keyword_index.node_ids[k]}

\* C16: for a query with at least one token, retrieve returns at most top_k
\* hits, every hit has a raw score above 0, the hits are in non-increasing
\* order of raw score, and no indexed segment outside the result has a raw
\* score that is positive and strictly greater than that of a returned hit.
C16_KeywordResults ==
    (/\ kw_call.outcome = "returned"
     /\ TokenizeText(keyword_index.token_pattern, kw_call.query) # <<>>) =>
        LET hits == kw_call.hits
        IN  /\ Len(hits) <= kw_call.top_k
            /\ \A i \in 1..Len(hits) : hits[i].kw_raw > 0
            /\ \A i, j \in 1..Len(hits) : i < j => hits[i].kw_raw >= hits[j].kw_raw
            /\ \A k \in OutsideResult(hits) :
                  \A i \in 1..Len(hits) :
                      ~(kw_call.scores[k] > 0 /\ kw_call.scores[k] > hits[i].kw_raw)

\* a query with a token over two indexed segments with different positive
\* scores and top_k = 1: the hit is the segment with the larger score, and a
\* segment with a positive score is left out
C16_Witness ==
    /\ kw_call.outcome = "returned"
    /\ kw_call.top_k = 1
    /\ Len(kw_call.scores) = 2
    /\ kw_call.scores[1] > 0
    /\ kw_call.scores[2] > kw_call.scores[1]
    /\ Len(kw_call.hits) = 1
    /\ kw_call.hits[1].node.node_id = keyword_index.node_ids[2]

-----------------------------------------------------------------------------
(* C17 *)

\* C17: a retrieve call whose query has no token, or whose index has no
\* indexed segment, returns an empty hit list and raises nothing, whether the
\* index was just built, was serialized, or was reconstructed.
C17_EmptyQueryOrIndex ==
    (/\ kw_call.outcome # "none"
     /\ \/ TokenizeText(keyword_index.token_pattern, kw_call.query) = <<>>
        \/ keyword_index.node_ids = <<>>) =>
        /\ kw_call.outcome = "returned"
        /\ kw_call.hits = <<>>

\* a query without a token was answered with no hit by a reconstructed index
\* that has indexed segments, with a top_k that leaves room for hits
C17_Witness ==
    /\ pc = "restored"
    /\ kw_call.outcome = "returned"
    /\ kw_call.top_k > 0
    /\ keyword_index.node_ids # <<>>
    /\ TokenizeText(keyword_index.token_pattern, kw_call.query) = <<>>
    /\ kw_call.hits = <<>>

-----------------------------------------------------------------------------
(* C18 *)

\* the tokens the index reads from a segment
IndexTokens(node) ==
    TokenizeNode(keyword_index.token_pattern, keyword_index.boost_header, node)

\* C18: in an index, node_ids and tokenized_docs have the same length, the
\* k-th token list is the token list of the segment with the k-th id and is
\* not empty, the indexed ids are those of the segments with a token, and no
\* hit of retrieve is a segment without a token.
C18_ZeroTokenExcluded ==
    pc \in {"indexed", "persisted", "restored"} =>
        /\ Len(keyword_index.node_ids) = Len(keyword_index.tokenized_docs)
        /\ \A k \in 1..Len(keyword_index.node_ids) :
              /\ keyword_index.tokenized_docs[k] # <<>>
              /\ \E n \in 1..Len(enhanced_nodes) :
                    /\ enhanced_nodes[n].node_id = keyword_index.node_ids[k]
                    /\ IndexTokens(enhanced_nodes[n]) = keyword_index.tokenized_docs[k]
        /\ \A n \in 1..Len(enhanced_nodes) :
              IndexTokens(enhanced_nodes[n]) = <<>> =>
                  /\ \A k \in 1..Len(keyword_index.node_ids) :
                        keyword_index.node_ids[k] # enhanced_nodes[n].node_id
                  /\ \A i \in 1..Len(kw_call.hits) :
                        kw_call.hits[i].node.node_id # enhanced_nodes[n].node_id
        /\ \A i \in 1..Len(kw_call.hits) : IndexTokens(kw_call.hits[i].node) # <<>>

\* the segment set has a segment without a token and one with a token, and
\* retrieve returned the latter
C18_Witness ==
    /\ pc = "indexed"
    /\ \E n \in 1..Len(enhanced_nodes) : IndexTokens(enhanced_nodes[n]) = <<>>
    /\ Len(keyword_index.node_ids) = 1
    /\ kw_call.outcome = "returned"
    /\ Len(kw_call.hits) = 1

-----------------------------------------------------------------------------
(* C19 *)

\* the parent blocks emitted for the d-th document
BlocksOf(d) == SelectSeq(parent_nodes, LAMBDA n : n.src_doc = d)

\* C19 as stated: _build_parent_nodes emits no parent block for a document
\* whose text is empty.
C19_EmptyDocumentNoBlock ==
    pc # "loaded" =>
        \A d \in 1..Len(documents) :
            documents[d].text = <<>> => BlocksOf(d) = <<>>

-----------------------------------------------------------------------------
(* C20 *)

\* the document has no heading: heading_re finds no match in its text
NoHeading(doc) == FindHeadings(NormalizeNewlines(doc.text), 1) = <<>>

\* C20: every document with a non-empty text yields at least one parent
\* block, and a document without a heading yields exactly one parent block,
\* whose header is empty and whose text is the whole text of the document
\* (line endings normalized, trimmed as every block is).
C20_AtLeastOneBlock ==
    pc # "loaded" =>
        \A d \in 1..Len(documents) :
            /\ documents[d].text # <<>> => Len(BlocksOf(d)) >= 1
            /\ NoHeading(documents[d]) =>
                  /\ Len(BlocksOf(d)) = 1
                  /\ BlocksOf(d)[1].section_header = <<>>
                  /\ BlocksOf(d)[1].text = Strip(NormalizeNewlines(documents[d].text))

\* two documents were cut: a blank one, which has its single block, and one
\* with a heading, which has its blocks
C20_Witness ==
    /\ pc = "parents"
    /\ Len(documents) = 2
    /\ documents[1].text = <<" ">>
    /\ Len(BlocksOf(1)) = 1
    /\ ~NoHeading(documents[2])
    /\ Len(BlocksOf(2)) >= 1

-----------------------------------------------------------------------------
(* C21 *)

\* the parent blocks that start at a heading
HeadingBlocksOf(d) == SelectSeq(BlocksOf(d), LAMBDA n : n.section_header # <<>>)

HeadersOf(blocks) == [k \in 1..Len(blocks) |-> blocks[k].section_header]

\* the headers a document made of the pieces ps has, at any level
PieceHeader(piece) ==
    IF piece[1] # "#" THEN <<>>
    ELSE IF piece[2] = "#" THEN <<<<"s", "u", "m", "m", "a", "r", "y">>>>
    ELSE <<<<piece[3]>>>>

RECURSIVE ExpectedHeaders(_)
ExpectedHeaders(ps) ==
    IF ps = <<>> THEN <<>> ELSE PieceHeader(Head(ps)) \o ExpectedHeaders(Tail(ps))

\* C21 as stated: the document with level-1 headings A and B and the level-2
\* heading "summary" between them yields heading blocks with the headers "A"
\* and "B" exactly, the "## summary" line being part of block A's text.
C21_LevelOneOnly ==
    (pc # "loaded" /\ documents[1].text = ScenarioText) =>
        /\ HeadersOf(HeadingBlocksOf(1)) = <<<<"A">>, <<"B">>>>
        /\ HeadingBlocksOf(1)[1].text = <<"#", " ", "A", "\n", "t", "e", "x", "t", "1", "\n", "\n", "#", "#", " ", "s", "u", "m", "m", "a", "r", "y", "\n", "t", "e", "x", "t", "2">>

\* C21 amended: a heading of any level 1..6 starts a parent block: that
\* document yields the heading blocks "A", "summary" and "B", block A ends
\* before the "## summary" line, which is the first line of the block
\* "summary"; a document made of sections has one heading block per heading,
\* of either level, in order.
C21_EveryLevelSplits ==
    pc # "loaded" =>
        /\ documents[1].text = ScenarioText =>
              /\ HeadersOf(HeadingBlocksOf(1)) = <<<<"A">>, <<"s", "u", "m", "m", "a", "r", "y">>, <<"B">>>>
              /\ HeadingBlocksOf(1)[1].text = <<"#", " ", "A", "\n", "t", "e", "x", "t", "1">>
              /\ HeadingBlocksOf(1)[2].text = <<"#", "#", " ", "s", "u", "m", "m", "a", "r", "y", "\n", "t", "e", "x", "t", "2">>
              /\ HeadingBlocksOf(1)[3].text = <<"#", " ", "B", "\n", "t", "e", "x", "t", "3">>
        /\ \A ps \in SeqsUpTo(HeadingPieces, MaxHeadingPieces) :
              documents[1].text = Concat(ps) =>
                  HeadersOf(HeadingBlocksOf(1)) = ExpectedHeaders(ps)

\* the parent blocks of the scenario document were built
C21_Witness ==
    /\ pc = "parents"
    /\ documents[1].text = ScenarioText
    /\ Len(parent_nodes) = 3

-----------------------------------------------------------------------------
(* C22 *)

\* C22 as stated: in a build over the documents of a directory tree no two
\* emitted parent blocks, of the same document or of different documents,
\* have the same identifier.
C22_ParentIdsUnique ==
    pc # "loaded" =>
        \A i, j \in 1..Len(parent_nodes) :
            i # j => parent_nodes[i].node_id # parent_nodes[j].node_id

-----------------------------------------------------------------------------
(* C23 *)

\* C23 as stated: no child segment has a text longer than the configured
\* max_embed_chars.
C23_CapAtConfigured ==
    pc = "segments" =>
        \A k \in 1..Len(enhanced_nodes) : Len(enhanced_nodes[k].text) <= max_embed_chars

\* the limit _truncate_for_embedding applies: max_embed_chars, at least 500
EmbedLimit == IF max_embed_chars > MinEmbedChars THEN max_embed_chars ELSE MinEmbedChars

\* the segments of the parents under a limit no text reaches
UncappedSegments ==
    SplitAll(parent_nodes, 1, paragraph_chunk_chars, Len(documents[1].text) + MinEmbedChars)

\* C23 amended: no child segment has a text longer than the larger of
\* max_embed_chars and 500, and the text of a segment is the chunk or table it
\* was made from, or its first max(max_embed_chars, 500) characters when the
\* chunk or table is longer.
C23_CapAtEffectiveLimit ==
    pc = "segments" =>
        /\ Len(enhanced_nodes) = Len(UncappedSegments)
        /\ \A k \in 1..Len(enhanced_nodes) :
              LET text == enhanced_nodes[k].text
                  full == UncappedSegments[k].text
              IN  /\ Len(text) <= EmbedLimit
                  /\ text = IF Len(full) <= EmbedLimit THEN full ELSE Slice(full, 1, EmbedLimit)

\* max_embed_chars is below the floor and a text segment and a table were
\* cut to 500 characters
C23_Witness ==
    /\ pc = "segments"
    /\ max_embed_chars < MinEmbedChars
    /\ \E k, m \in 1..Len(enhanced_nodes) :
          /\ enhanced_nodes[k].is_table
          /\ ~enhanced_nodes[m].is_table
          /\ Len(enhanced_nodes[k].text) = MinEmbedChars
          /\ Len(enhanced_nodes[m].text) = MinEmbedChars
          /\ Len(UncappedSegments[k].text) > MinEmbedChars
          /\ Len(UncappedSegments[m].text) > MinEmbedChars

-----------------------------------------------------------------------------
(* C24 *)

RECURSIVE JoinedLen(_, _, _)
\* the length of sentences from..to joined by single spaces
JoinedLen(ss, from, to) ==
    IF from > to THEN 0
    ELSE IF from = to THEN Len(ss[from])
    ELSE Len(ss[from]) + 1 + JoinedLen(ss, from + 1, to)

\* sentences from..to may form one sub-chunk: they fit within the limit when
\* joined, or they are a single over-long sentence
ValidGroup(ss, from, to, limit) ==
    \/ JoinedLen(ss, from, to) <= limit
    \/ from = to /\ Len(ss[from]) > limit

RECURSIVE MinGroups(_, _, _)
\* the least number of groups over all ways to cut sentences from..Len(ss)
\* into valid groups of consecutive sentences
MinGroups(ss, from, limit) ==
    IF from > Len(ss) THEN 0
    ELSE Min({1 + MinGroups(ss, to + 1, limit) :
                 to \in {j \in from..Len(ss) : ValidGroup(ss, from, j, limit)}})

\* C24: _chunk_paragraph returns as many sub-chunks as the smallest grouping
\* of the paragraph's consecutive sentences in which every group fits within
\* the limit when joined by single spaces or is a single over-long sentence.
C24_MinimalChunks ==
    chunked =>
        Len(ret_chunks) = MinGroups(Sentences(arg_paragraph), 1, EffectiveLimit)

\* three sentences that do not fit into one sub-chunk were returned as two
\* sub-chunks, the first holding two sentences
C24_Witness ==
    /\ chunked
    /\ Len(Sentences(arg_paragraph)) = 3
    /\ Len(ret_chunks) = 2
    /\ Len(Sentences(ret_chunks[1])) = 2

-----------------------------------------------------------------------------
(* C25 *)

\* C25: with the limit max(paragraph_chunk_chars, 200), no returned
\* sub-chunk is empty, and a sub-chunk is longer than the limit only if it
\* consists of exactly one sentence that is itself longer than the limit.
C25_SizeBound ==
    chunked =>
        \A c \in 1..Len(ret_chunks) :
            /\ ret_chunks[c] # <<>>
            /\ \/ Len(ret_chunks[c]) <= EffectiveLimit
               \/ /\ Len(ChunkSentences[c]) = 1
                  /\ ChunkSentences[c][1] = ret_chunks[c]
                  /\ \E k \in 1..Len(Sentences(arg_paragraph)) :
                        Sentences(arg_paragraph)[k] = ret_chunks[c]

\* an over-long sentence was returned alone, followed by a sub-chunk of two
\* sentences within the limit
C25_Witness ==
    /\ chunked
    /\ Len(ret_chunks) = 2
    /\ Len(ret_chunks[1]) > EffectiveLimit
    /\ Len(ChunkSentences[1]) = 1
    /\ Len(ChunkSentences[2]) = 2
    /\ Len(ret_chunks[2]) <= EffectiveLimit

-----------------------------------------------------------------------------
(* C26 *)

\* the text without its whitespace characters
NonWS(s) == SelectSeq(s, LAMBDA c : c \notin WS)

\* the child segments of the p-th parent, in emission order
KidsOf(p) ==
    SelectSeq(enhanced_nodes, LAMBDA n : n.parent_node_id = parent_nodes[p].node_id)

\* the tables and the sentences of the paragraphs of one piece of a parent's
\* text between table boundaries
RawItems(raw) ==
    IF Strip(raw) = <<>> THEN <<>>
    ELSE IF TableFullMatch(Strip(raw)) THEN <<Strip(raw)>>
    ELSE LET paragraphs == StripNonEmpty(ParagraphSplit(NormalizeNewlines(raw), 1))
         IN  Concat([k \in 1..Len(paragraphs) |-> Sentences(paragraphs[k])])

\* the tables and the sentences of a parent's text, in their order
ParentItems(text) ==
    LET raws == TableSplit(text, 1)
    IN  Concat([k \in 1..Len(raws) |-> RawItems(raws[k])])

\* the table or the sentences a child segment holds
KidItems(kid) == IF kid.is_table THEN <<kid.text>> ELSE Sentences(kid.text)

\* no child segment of the p-th parent was cut by the embedding cap
Uncut(p) == \A k \in 1..Len(KidsOf(p)) : Len(KidsOf(p)[k].text) < EmbedLimit

\* C26: for every parent none of whose children was cut by the embedding
\* cap, the children are in section_segment_index order, their tables and
\* sentences read in that order are the tables and the sentences of the
\* parent's paragraphs in the original order, each once, and their texts
\* hold the parent's characters other than whitespace, each once, in order.
C26_Reconstruction ==
    pc = "segments" =>
        \A p \in 1..Len(parent_nodes) :
            Uncut(p) =>
                LET kids == KidsOf(p)
                IN  /\ \A k \in 1..Len(kids) : kids[k].section_segment_index = k
                    /\ Concat([k \in 1..Len(kids) |-> KidItems(kids[k])])
                          = ParentItems(parent_nodes[p].text)
                    /\ NonWS(Concat([k \in 1..Len(kids) |-> kids[k].text]))
                          = NonWS(parent_nodes[p].text)

\* a parent with a table between two paragraphs, one of them cut into two
\* sub-chunks
C26_Witness ==
    /\ pc = "segments"
    /\ \E p \in 1..Len(parent_nodes) :
          /\ Uncut(p)
          /\ Len(KidsOf(p)) >= 4
          /\ \E a, b, c \in 1..Len(KidsOf(p)) :
                /\ a < b /\ b < c
                /\ ~KidsOf(p)[a].is_table
                /\ KidsOf(p)[b].is_table
                /\ ~KidsOf(p)[c].is_table
                /\ \E d \in 1..Len(KidsOf(p)) : KidsOf(p)[d].section_paragraph_chunk = 2

-----------------------------------------------------------------------------
(* C27 *)

\* the tables and the paragraphs of one piece of a parent's text between
\* table boundaries
RawUnits(raw) ==
    IF Strip(raw) = <<>> THEN <<>>
    ELSE IF TableFullMatch(Strip(raw)) THEN <<[is_table |-> TRUE, text |-> Strip(raw)]>>
    ELSE LET paragraphs == StripNonEmpty(ParagraphSplit(NormalizeNewlines(raw), 1))
         IN  [k \in 1..Len(paragraphs) |-> [is_table |-> FALSE, text |-> paragraphs[k]]]

\* the tables and the paragraphs of a parent's text, in their order
ParentUnits(text) ==
    LET raws == TableSplit(text, 1)
    IN  Concat([k \in 1..Len(raws) |-> RawUnits(raws[k])])

\* the children of the p-th parent with section_paragraph_index = i
KidsAt(p, i) == SelectSeq(KidsOf(p), LAMBDA n : n.section_paragraph_index = i)

\* C27: within one parent, the section_paragraph_index values of the
\* segments start at 1, never decrease and skip no value; the segments with
\* the i-th value are the sub-chunks of the i-th paragraph, numbered
\* section_paragraph_chunk = 1..k in order, or the single segment of the
\* i-th unit when that is a table, with section_paragraph_chunk = 1.
C27_ParagraphOrdinals ==
    pc = "segments" =>
        \A p \in 1..Len(parent_nodes) :
            LET kids  == KidsOf(p)
                units == ParentUnits(parent_nodes[p].text)
            IN  /\ \A k \in 1..Len(kids) :
                      /\ kids[k].section_paragraph_index \in 1..Len(units)
                      /\ k = 1 => kids[k].section_paragraph_index = 1
                      /\ k > 1 =>
                            kids[k].section_paragraph_index - kids[k - 1].section_paragraph_index
                                \in {0, 1}
                /\ \A i \in 1..Len(units) :
                      LET at == KidsAt(p, i)
                      IN  /\ at # <<>>
                          /\ \A c \in 1..Len(at) :
                                /\ at[c].section_paragraph_chunk = c
                                /\ at[c].is_table = units[i].is_table
                          /\ units[i].is_table => Len(at) = 1
                          /\ Uncut(p) =>
                                [c \in 1..Len(at) |-> at[c].text]
                                    = IF units[i].is_table THEN <<units[i].text>>
                                      ELSE ChunkParagraph(units[i].text, paragraph_chunk_chars)

\* a parent whose first paragraph was cut into two sub-chunks, numbered 1 and
\* 2 under the index 1, followed by a table under the index 2
C27_Witness ==
    /\ pc = "segments"
    /\ \E p \in 1..Len(parent_nodes) :
          /\ Len(KidsAt(p, 1)) = 2
          /\ KidsAt(p, 1)[2].section_paragraph_chunk = 2
          /\ Len(KidsAt(p, 2)) = 1
          /\ KidsAt(p, 2)[1].is_table

-----------------------------------------------------------------------------
(* C28 *)

\* C28 as stated: a completion call asks for the DOI only if no DOI is known
\* for the document when the call is made, a DOI the pattern just found in
\* the same parent included, and for the authors only if the author list is
\* still empty.
C28_AsksOnlyMissing ==
    \A k \in 1..Len(llm_log) :
        /\ llm_log[k].need_doi => ~llm_log[k].doi_known
        /\ llm_log[k].need_authors => llm_log[k].authors = <<>>

-----------------------------------------------------------------------------
(* C29 *)

\* the pattern matched in the parent of the k-th call: the DOI was unknown
\* before this parent and is known when the call is made
PatternMatched(k) == llm_log[k].need_doi /\ llm_log[k].doi_known

\* C29 as stated: after a fresh extraction, the DOI recorded for a document
\* in one of whose parents the pattern matched is the matched value.
C29_PatternDoiFinal ==
    (pc = "extracted" /\ meta_call.path = "fresh" /\ meta_call.outcome = "returned") =>
        \A k \in 1..Len(llm_log) :
            PatternMatched(k) =>
                doc_metadata[llm_log[k].doc_id].doi = llm_log[k].doi

-----------------------------------------------------------------------------
(* C30 *)

\* the child segments derived from the documents the last create_index loaded
SegmentsOfLastCall ==
    SplitAll(BuildParentNodes(index_call.documents), 1, paragraph_chunk_chars, max_embed_chars)

\* the ids of those of them that have a token
TokenSegmentIds ==
    {SegmentsOfLastCall[n].node_id : n \in
        {m \in 1..Len(SegmentsOfLastCall) :
            TokenizeNode(DefaultTokenPattern, TRUE, SegmentsOfLastCall[m]) # <<>>}}

\* C30: when the last create_index call of the engine, on the load path or
\* the rebuild path, completed with build_keyword_index=True, the segments
\* of the keyword index are exactly the child segments derived from the
\* documents that call loaded, less those without a token, the dense index
\* is set, and a dual_retrieve_hits call that follows raises no precondition
\* error.
C30_KeywordIndexCurrent ==
    (index_call.outcome = "returned" /\ index_call.build_keyword_index) =>
        /\ vector_index # None
        /\ keyword_index # None
        /\ {keyword_index.node_ids[k] : k \in 1..Len(keyword_index.node_ids)} = TokenSegmentIds
        /\ Len(keyword_index.node_ids) = Cardinality(TokenSegmentIds)
        /\ \A k \in 1..Len(keyword_index.node_ids) :
              keyword_index.node_lookup[keyword_index.node_ids[k]].text
                  \in {SegmentsOfLastCall[n].text : n \in 1..Len(SegmentsOfLastCall)}
        /\ ret.outcome # "raised"

\* create_index completed on the load path over documents other than those
\* the persisted dense index was built from, and a dual_retrieve_hits call
\* with keyword retrieval has returned
C30_Witness ==
    /\ index_call.outcome = "returned"
    /\ index_call.build_keyword_index
    /\ index_call.path = "load"
    /\ vector_index # None
    /\ vector_index.nodes # enhanced_nodes
    /\ keyword_index.node_ids # <<>>
    /\ ret.outcome = "returned"
    /\ ret.args.use_keyword

====
